---- MODULE Spec2Model ----
(***************************************************************************)
(* A model of the AI-companion web application: the request orchestration  *)
(* of GeminiService (withRetry, sendMessage, generateImage), the screens   *)
(* that call it (ChatInterface, StoryPlayer, VoiceInterface, App) and the   *)
(* AuraDB record store.                                                     *)
(*                                                                          *)
(* The program is single-threaded and event-driven: every action below is   *)
(* one run-to-completion piece of a handler, from an event or the           *)
(* resumption after an await up to the next await.                          *)
(***************************************************************************)
EXTENDS Integers, Sequences, FiniteSets, TLC

VARIABLES
  \* ---- GeminiService.withRetry and the handlers that await it ----
  flow,        \* the handler awaiting the service: "idle", "send", "story", "studio"
  ctx,         \* the operation the last withRetry call wraps: "none", "chat", "img_primary", "img_fallback", "story", "tts"
  wpc,         \* position inside withRetry: "none", "invoke", "catch", "backoff", "returned", "thrown"
  retries,     \* withRetry's parameter retries
  calls,       \* invocations of operation() by the running withRetry call and its recursion
  lastErr,     \* message of the error the last failed operation() raised
  thrown,      \* message of the error withRetry threw
  replyTag,    \* the chat reply carries [GENERATE_IMAGE: ...]
  chat,        \* GeminiService.chat is set
  ui,          \* the state of the calling screen
  permRaised,  \* observation: a remote operation of this handler raised a permission error
  \* ---- App (src/App.tsx) and the settings store of AuraDB ----
  isLoggedIn,
  currentUserId,
  settings,        \* None or Some(record)
  isAppLoaded,
  hasApiKey,
  mode,
  isVoiceActive,
  loginPc,         \* handleLogin: "none", "reading", "loaded", "saving"
  savedSettings,   \* what db.getSettings(phone) resolved to in handleLogin
  keyChecks,       \* pending window.aistudio.hasSelectedApiKey() calls of checkKey
  keySelections,   \* pending window.aistudio.openSelectKey() calls of handleConnect
  requests,        \* remote chat requests in flight: for each, settings.useLocalMode as its handler saw it
  settingsStore,   \* the records of the object store 'settings'
  dbQueue,         \* the transactions on 'settings' not yet run, oldest first
  lastSaved,       \* observation: per user, the argument of the last saveSettings call
  authInvalidated, \* observation: handleAuthError reset the key and no key selection completed since
  \* ---- ChatInterface (src/components/ChatInterface.tsx) and its stores ----
  now,             \* what Date.now() returns
  messages,
  history,
  isDBLoaded,
  inputValue,      \* the input field holds text
  isLoading,
  sends,           \* the runs of handleSend that have not ended
  greetTimers,     \* pending timeouts of startFreshSession
  activeChat,      \* the records of the object store 'active_chat'
  chatHistory,     \* the records of the object store 'chat_history'
  strayReply,      \* observation: messages holds a reply to a message of a conversation that had been replaced
  loadedFromStore, \* observation: messages began as the stored messages loadDB found
  \* ---- VoiceInterface (src/components/VoiceInterface.tsx) ----
  activeSessionIdRef,
  nextSessionId,     \* the sessionId the next handleStartCall takes from Date.now()
  connectionRef,
  status,
  aiState,
  isAuraSpeaking,
  sourcesRef,        \* the sources in sourcesRef.current
  nextStartTimeRef,  \* the session that wrote nextStartTimeRef.current last
  sessionActionsRef, \* the session whose actions sessionActionsRef.current holds
  lastForwarder,     \* the session whose onaudioprocess sent audio last
  isSwitchingMode,
  isStoryMode,
  storyTimer,        \* the timeout of startImmersiveStory is pending
  session,             \* per session, where its handleStartCall and its callbacks are
  playing,           \* the sources started whose onended has not run
  staleWrite,        \* observation: a session changed the call's state after its identifier was replaced
  \* ---- the audio of one live call of VoiceInterface, on the output clock ----
  outputTime,        \* outputCtx.currentTime
  nextStartTime,     \* the value of nextStartTimeRef.current
  sources,           \* the sources in sourcesRef.current
  awaitingEnded,     \* the sources started whose onended has not run
  stopped,           \* the sources of awaitingEnded that stop() was called on
  arrived,           \* the number of audio chunks that arrived
  scheduled,         \* observation: the chunks started, in the order of source.start
  lastInterrupt,     \* observation: the last 'interrupted' signal handled
  \* ---- the microphone of the live call of VoiceInterface ----
  isMuted,
  liveCall,             \* the call whose processor is installed: what its closures captured
  pauseAudioSendingRef,
  pauseTimers,          \* the pending timeouts of handleSendText: for each, the time left
  silenceBufferRef,     \* the length of silenceBufferRef.current
  sinceText,            \* observation: the time since sendText was last called
  lastFrame,            \* observation: the last frame onaudioprocess got and what it sent
  \* ---- GeminiService.sendMessage after the chat call resolved ----
  replyPc,           \* "idle", "image" (awaiting generateImage), "returned"
  modelReply,        \* result.text || ""
  rawText,
  generatedImage,
  imageCalls,        \* the prompts generateImage was called with
  \* ---- GeminiService.sendMessage of src/services/geminiService.ts: tool calls ----
  toolPc,            \* "idle", "tool", "respond", "respondInTry", "returned", "threw"
  toolCalls,         \* result.functionCalls
  callIdx,           \* the position of the for loop over the calls
  imgToEdit,         \* attachmentBase64 || contextImageBase64 is set
  replyText,         \* text is not empty
  toolImage,         \* generatedImage: <<>> or <<i>>, the image call i produced
  functionResponses, \* the functionResponse messages handed to chat.sendMessage
  editRequests,      \* the calls for which editImage called the endpoint
  editFailed,        \* the calls whose editImage rejected
  \* ---- AuraDB (src/unnamed/part_004): the object stores with the index 'userId' ----
  objectStores,      \* for each store, its records
  transactions,      \* the transactions created and not yet run, oldest first
  dbCalls,           \* the number of calls of saveActiveChat, put and delete made
  lastRun,           \* observation: the last transaction run and the stores before it
  lastIssued,        \* observation: per user, the messages of the last saveActiveChat call
  \* ---- createBlob (src/services/geminiService.ts) ----
  pcmData,           \* the argument data, a Float32Array: the samples in units of 1 / (SubSteps * FullScale)
  pcmInt16,          \* the Int16Array int16
  pcmBytes,          \* new Uint8Array(int16.buffer)
  \* ---- ChatInterface and GeminiService of src/unnamed: the history of the remote chat ----
  turnMessages,
  effectPending,
  currentHistory,
  thisChat,
  chatGen,
  reads,
  startCalls,
  sendPc,
  turnMsg,
  sentTo,
  turnRetries,
  turnLoading,
  lastTurn,
  \* ---- one call of GeminiService.generateImage, observed ----
  endpointCalls,
  fallbacks,
  primaryEnd,
  \* ---- GeminiService of src/services/geminiService.ts under local mode ----
  currentUseLocalMode,
  isLocalMode,
  svcChat,
  closeTimers,
  lastOp,
  \* ---- AuraDB (src/unnamed/part_004): the connection ----
  dbPromise,
  openRequests,
  operations

svcVars == <<flow, ctx, wpc, retries, calls, lastErr, thrown, replyTag, chat, ui, permRaised>>

appVars == <<isLoggedIn, currentUserId, settings, isAppLoaded, hasApiKey, mode, isVoiceActive,
             loginPc, savedSettings, keyChecks, keySelections, requests,
             settingsStore, dbQueue, lastSaved, authInvalidated>>

chatVars == <<now, messages, history, isDBLoaded, inputValue, isLoading, sends, greetTimers,
              activeChat, chatHistory, strayReply, loadedFromStore>>

voiceVars == <<activeSessionIdRef, nextSessionId, connectionRef, status, aiState, isAuraSpeaking,
               sourcesRef, nextStartTimeRef, sessionActionsRef, lastForwarder, isSwitchingMode,
               isStoryMode, storyTimer, session, playing, staleWrite>>

audioVars == <<outputTime, nextStartTime, sources, awaitingEnded, stopped, arrived, scheduled,
               lastInterrupt>>

\* the state of VoiceInterface the audio handlers leave alone
callVars == <<activeSessionIdRef, nextSessionId, connectionRef, status, sourcesRef, nextStartTimeRef,
              sessionActionsRef, lastForwarder, isSwitchingMode, isStoryMode, storyTimer,
              session, playing, staleWrite>>

micVars == <<isMuted, liveCall, pauseAudioSendingRef, pauseTimers, silenceBufferRef, sinceText,
             lastFrame>>

replyVars == <<replyPc, modelReply, rawText, generatedImage, imageCalls>>

toolVars == <<toolPc, toolCalls, callIdx, imgToEdit, replyText, toolImage,
              functionResponses, editRequests, editFailed>>

dbVars == <<objectStores, transactions, dbCalls, lastRun, lastIssued>>

pcmVars == <<pcmData, pcmInt16, pcmBytes>>

turnVars == <<turnMessages, effectPending, currentHistory, thisChat, chatGen, reads, startCalls, sendPc, turnMsg, sentTo, turnRetries, turnLoading, lastTurn>>

imgVars == <<endpointCalls, fallbacks, primaryEnd>>

localVars == <<currentUseLocalMode, isLocalMode, svcChat, closeTimers, lastOp>>

openVars == <<dbPromise, openRequests, operations>>

vars == <<svcVars, appVars, chatVars, voiceVars, audioVars, micVars, replyVars, toolVars, dbVars,
          pcmVars, turnVars, imgVars, localVars, openVars>>

----------------------------------------------------------------------------
(* Error messages.  A message is a sequence of text fragments; includes()  *)
(* is the search for a contiguous run of fragments, toLowerCase() maps it  *)
(* fragment by fragment.                                                    *)

MaxMsgLen == 2

RemoteTokens ==
  { "403", "429", "RESOURCE_EXHAUSTED", "PERMISSION", "_DENIED",
    "caller does not have ", "permission", "Permission",
    "Requested entity was not found", "API_KEY_INVALID", "unauthorized",
    "timeout" }

Messages == UNION { [1..n -> RemoteTokens] : n \in 0..MaxMsgLen }

NoError == <<"<none>">>

LowerTok(t) ==
  CASE t = "PERMISSION" -> "permission"
    [] t = "Permission" -> "permission"
    [] t = "_DENIED" -> "_denied"
    [] t = "RESOURCE_EXHAUSTED" -> "resource_exhausted"
    [] t = "API_KEY_INVALID" -> "api_key_invalid"
    [] t = "Requested entity was not found" -> "requested entity was not found"
    [] t = "AUTH_ERROR" -> "auth_error"
    [] OTHER -> t

toLowerCase(msg) == [i \in 1..Len(msg) |-> LowerTok(msg[i])]

includes(msg, pat) ==
  \E i \in 1..(Len(msg) - Len(pat) + 1) : SubSeq(msg, i, i + Len(pat) - 1) = pat

startsWith(msg, pat) ==
  Len(msg) >= Len(pat) /\ SubSeq(msg, 1, Len(pat)) = pat

\* new Error("AUTH_ERROR: Permission Denied. Visit ai.google.dev/gemini-api/docs/billing.")
AuthErrorMsg == <<"AUTH_ERROR", ": ", "Permission", " Denied. Visit ai.google.dev/gemini-api/docs/billing.">>

\* new Error("No image data.")
NoImageMsg == <<"No image data.">>

----------------------------------------------------------------------------
(* GeminiService.withRetry *)

isAuthError_NoCaseFold(rawMsg) ==
     includes(rawMsg, <<"403">>)
  \/ includes(rawMsg, <<"PERMISSION", "_DENIED">>)
  \/ includes(rawMsg, <<"caller does not have ", "permission">>)
  \/ includes(rawMsg, <<"Requested entity was not found">>)
  \/ includes(rawMsg, <<"API_KEY_INVALID">>)
  \/ includes(rawMsg, <<"unauthorized">>)
  \/ includes(rawMsg, <<"permission">>)

isAuthError(rawMsg) ==
     includes(rawMsg, <<"403">>)
  \/ includes(rawMsg, <<"PERMISSION", "_DENIED">>)
  \/ includes(rawMsg, <<"caller does not have ", "permission">>)
  \/ includes(rawMsg, <<"Requested entity was not found">>)
  \/ includes(rawMsg, <<"API_KEY_INVALID">>)
  \/ includes(rawMsg, <<"unauthorized">>)
  \/ includes(toLowerCase(rawMsg), <<"permission">>)

isRateLimit(rawMsg) ==
  includes(rawMsg, <<"429">>) \/ includes(rawMsg, <<"RESOURCE_EXHAUSTED">>)

\* the default of the parameter retries
DefaultRetries == 1

\* a call withRetry(operation) by the caller context c
EnterWithRetry(c) ==
  /\ ctx' = c
  /\ wpc' = "invoke"
  /\ retries' = DefaultRetries
  /\ calls' = 0
  /\ lastErr' = NoError
  /\ thrown' = NoError

\* await operation(): the remote call succeeds or raises an error with message m
Invoke ==
  /\ wpc = "invoke"
  /\ calls' = calls + 1
  /\ \/ /\ wpc' = "returned"
        /\ replyTag' \in (IF ctx = "chat" THEN BOOLEAN ELSE {replyTag})
        /\ UNCHANGED <<lastErr, permRaised>>
     \/ \E m \in Messages :
          /\ wpc' = "catch"
          /\ lastErr' = m
          /\ permRaised' = (permRaised \/ includes(m, <<"403">>))
          /\ UNCHANGED replyTag
  /\ UNCHANGED <<flow, ctx, retries, thrown, chat, ui>>

\* the catch block up to its throw or its await of the backoff timer
ThrowsAuth == isAuthError(lastErr)

RetriesAfterCatch_Always == isRateLimit(lastErr)

RetriesAfterCatch == retries > 0 /\ isRateLimit(lastErr)

Catch ==
  /\ wpc = "catch"
  /\ IF ThrowsAuth
       THEN /\ chat' = FALSE
            /\ thrown' = AuthErrorMsg
            /\ wpc' = "thrown"
       ELSE IF RetriesAfterCatch
         THEN /\ wpc' = "backoff"
              /\ UNCHANGED <<chat, thrown>>
         ELSE /\ thrown' = lastErr
              /\ wpc' = "thrown"
              /\ UNCHANGED chat
  /\ UNCHANGED <<flow, ctx, retries, calls, lastErr, replyTag, ui, permRaised>>

\* the backoff timer fires: return this.withRetry(operation, retries - 1, initialDelay * 2)
Backoff ==
  /\ wpc = "backoff"
  /\ retries' = retries - 1
  /\ wpc' = "invoke"
  /\ UNCHANGED <<flow, ctx, calls, lastErr, thrown, replyTag, chat, ui, permRaised>>

----------------------------------------------------------------------------
(* The screens that await the service.  ui holds the state of the screen    *)
(* whose handler is running and what that handler did: onAuthErrorCalls and *)
(* alertCalls count the calls of onAuthError and of alert by the handler     *)
(* named in ui.handler, the last one started.                               *)

UiInit ==
  [ isLoading |-> FALSE, isCapturingSelfie |-> FALSE, inputValue |-> FALSE,
    newPrompt |-> FALSE, isProcessing |-> FALSE, isGenerating |-> FALSE,
    status |-> "Ready", handler |-> "none", replied |-> FALSE, generatedImage |-> FALSE,
    onAuthErrorCalls |-> 0, alertCalls |-> 0 ]

\* what a handler clears of the previous handler's observations when it starts
Fresh(u, h) ==
  [u EXCEPT !.handler = h, !.replied = FALSE, !.generatedImage = FALSE,
            !.onAuthErrorCalls = 0, !.alertCalls = 0]

WithRetryIdle ==
  /\ wpc' = "none"
  /\ UNCHANGED <<ctx, retries, calls, lastErr, thrown>>

\* the user types into the chat input or into the story prompt
TypeInput ==
  /\ flow = "idle"
  /\ \/ ui' = [ui EXCEPT !.inputValue = TRUE]
     \/ ui' = [ui EXCEPT !.newPrompt = TRUE]
  /\ UNCHANGED <<flow, ctx, wpc, retries, calls, lastErr, thrown, replyTag, chat, permRaised>>

\* ChatInterface.handleSend up to the remote chat call inside sendMessage
HandleSendRemote ==
  /\ flow = "idle"
  /\ ui.inputValue /\ ~ui.isLoading
  /\ ui' = [Fresh(ui, "send") EXCEPT !.inputValue = FALSE, !.isLoading = TRUE,
                             !.isCapturingSelfie = FALSE]
  /\ flow' = "send"
  /\ chat' = TRUE              \* if (!this.chat && this.currentSettings) await this.startChat(...)
  /\ permRaised' = FALSE
  /\ EnterWithRetry("chat")
  /\ UNCHANGED replyTag

\* handleSend after sendMessage resolved: the reply is appended; finally
SendResolved(image) ==
  /\ ui' = [ui EXCEPT !.replied = TRUE, !.generatedImage = image,
                      !.isLoading = FALSE, !.isCapturingSelfie = FALSE]
  /\ flow' = "idle"
  /\ WithRetryIdle

\* the catch block of handleSend
TakesAuthPath(msg) == includes(msg, <<"AUTH_ERROR">>)

SendRejected_NoFinally(msg) ==
  /\ ui' = [ui EXCEPT
              !.onAuthErrorCalls = IF TakesAuthPath(msg) THEN @ + 1 ELSE @,
              !.alertCalls = IF TakesAuthPath(msg) THEN @ ELSE @ + 1,
              !.isLoading = TakesAuthPath(msg), !.isCapturingSelfie = FALSE]
  /\ flow' = "idle"
  /\ WithRetryIdle

\* handleSend after sendMessage rejected with message msg: catch; finally
SendRejected(msg) ==
  /\ ui' = [ui EXCEPT
              !.onAuthErrorCalls = IF TakesAuthPath(msg) THEN @ + 1 ELSE @,
              !.alertCalls = IF TakesAuthPath(msg) THEN @ ELSE @ + 1,
              !.isLoading = FALSE, !.isCapturingSelfie = FALSE]
  /\ flow' = "idle"
  /\ WithRetryIdle

\* sendMessage after the chat call settled
ChatSettled ==
  /\ flow = "send" /\ ctx = "chat"
  /\ \/ /\ wpc = "thrown"
        /\ SendRejected(thrown)
        /\ UNCHANGED <<replyTag, chat, permRaised>>
     \/ /\ wpc = "returned" /\ ~replyTag
        /\ SendResolved(FALSE)
        /\ UNCHANGED <<replyTag, chat, permRaised>>
     \/ /\ wpc = "returned" /\ replyTag       \* onImageDetected(); generateImage(match[1], false)
        /\ ui' = [ui EXCEPT !.isCapturingSelfie = TRUE]
        /\ EnterWithRetry("img_primary")
        /\ UNCHANGED <<flow, replyTag, chat, permRaised>>

\* CreativeStudio.handleGenerate up to the remote call of generateImage(finalPrompt, true)
HandleGenerate ==
  /\ flow = "idle"
  /\ ~ui.isGenerating
  /\ ui' = [Fresh(ui, "studio") EXCEPT !.isGenerating = TRUE]
  /\ flow' = "studio"
  /\ permRaised' = FALSE
  /\ EnterWithRetry("img_primary")
  /\ UNCHANGED <<replyTag, chat>>

\* generateImage resolved with an image for its caller
ImageResolved ==
  IF flow = "send"
    THEN SendResolved(TRUE)
    ELSE /\ ui' = [ui EXCEPT !.generatedImage = TRUE, !.isGenerating = FALSE]
         /\ flow' = "idle"
         /\ WithRetryIdle

\* generateImage rejected: sendMessage warns and goes on, handleGenerate alerts
ImageRejected ==
  IF flow = "send"
    THEN SendResolved(FALSE)
    ELSE /\ ui' = [ui EXCEPT !.alertCalls = @ + 1, !.isGenerating = FALSE]
         /\ flow' = "idle"
         /\ WithRetryIdle

RethrowsFromPrimary_Never(msg) == FALSE

\* generateImage after tryGenerate(primaryModel) settled
RethrowsFromPrimary(msg) == includes(msg, <<"AUTH_ERROR">>)

ImagePrimarySettled ==
  /\ ctx = "img_primary"
  /\ \/ /\ wpc = "returned"                   \* a part carries inlineData
        /\ ImageResolved
     \/ /\ wpc = "returned"                   \* throw new Error("No image data.")
        /\ ~RethrowsFromPrimary(NoImageMsg)
        /\ EnterWithRetry("img_fallback")
        /\ UNCHANGED <<flow, ui>>
     \/ /\ wpc = "thrown"
        /\ IF RethrowsFromPrimary(thrown)
             THEN ImageRejected
             ELSE EnterWithRetry("img_fallback") /\ UNCHANGED <<flow, ui>>
  /\ UNCHANGED <<replyTag, chat, permRaised>>

\* generateImage after tryGenerate('gemini-2.5-flash-image') settled
ImageFallbackSettled ==
  /\ ctx = "img_fallback"
  /\ \/ wpc = "returned" /\ ImageResolved
     \/ wpc = "returned" /\ ImageRejected     \* throw new Error("No image data.")
     \/ wpc = "thrown" /\ ImageRejected
  /\ UNCHANGED <<replyTag, chat, permRaised>>

\* StoryPlayer.handleCreateNew up to the remote call of generateStory
HandleCreateNew ==
  /\ flow = "idle"
  /\ ui.newPrompt
  /\ ui' = [Fresh(ui, "story") EXCEPT !.isProcessing = TRUE, !.status = "Writing Story..."]
  /\ flow' = "story"
  /\ permRaised' = FALSE
  /\ EnterWithRetry("story")
  /\ UNCHANGED <<replyTag, chat>>

\* handleCreateNew after generateStory settled
StorySettled ==
  /\ flow = "story" /\ ctx = "story"
  /\ \/ /\ wpc = "returned"
        /\ ui' = [ui EXCEPT !.status = "Encoding Audio..."]
        /\ EnterWithRetry("tts")
        /\ UNCHANGED flow
     \/ /\ wpc = "thrown"
        /\ ui' = [ui EXCEPT !.status = "Failed to generate", !.isProcessing = FALSE]
        /\ flow' = "idle"
        /\ WithRetryIdle
  /\ UNCHANGED <<replyTag, chat, permRaised>>

\* handleCreateNew after generateTTS settled
TtsSettled ==
  /\ flow = "story" /\ ctx = "tts"
  /\ \/ /\ wpc = "returned"
        /\ ui' = [ui EXCEPT !.status = "Ready to listen!", !.newPrompt = FALSE,
                            !.isProcessing = FALSE]
     \/ /\ wpc = "thrown"
        /\ ui' = [ui EXCEPT !.status = "Failed to generate", !.isProcessing = FALSE]
  /\ flow' = "idle"
  /\ WithRetryIdle
  /\ UNCHANGED <<replyTag, chat, permRaised>>

----------------------------------------------------------------------------
(* App (src/App.tsx) over the settings store of AuraDB.  An optional value *)
(* is None or Some(v).                                                      *)

None == <<>>

Some(v) == <<v>>

MaxPending == 2

MaxInFlight == 1

\* phone numbers LoginScreen lets through (phone.trim().length > 3)
Users == {"0300", "0311"}

Names == {"Aura", "Mia"}

Modes == {"chat", "voice", "gallery", "settings", "diary"}

getDefaults(userId) == [userId |-> userId, name |-> "Aura", useLocalMode |-> FALSE]

\* createObjectStore('settings', { keyPath: ... })
SettingsKey_Name(r) == r.name

SettingsKey(r) == r.userId

\* IDBObjectStore.put: the record replaces the one that has its key
StorePut(store, r) == {x \in store : SettingsKey(x) # SettingsKey(r)} \cup {r}

\* IDBObjectStore.get: the record that has the key, or undefined
StoreGet(store, k) ==
  IF \E x \in store : SettingsKey(x) = k
    THEN Some(CHOOSE x \in store : SettingsKey(x) = k)
    ELSE None

\* the transaction of db.put('settings', r), started by the code named in by
PutTx(r, by) == [op |-> "put", key |-> r.userId, value |-> Some(r), by |-> by]

\* the transaction of db.getSettings(k)
GetTx(k) == [op |-> "get", key |-> k, value |-> None, by |-> "login"]

\* transactions whose scopes overlap run in the order of their creation
TxToRun_Newest(q) == Len(q)

TxToRun(q) == 1

Without(q, i) == [j \in 1..(Len(q) - 1) |-> IF j < i THEN q[j] ELSE q[j + 1]]

\* the screens behind the key gate are rendered
MainRendered == isLoggedIn /\ isAppLoaded /\ settings # None /\ hasApiKey

\* the screen with "Connect API Key" and "Continue Offline" is rendered
KeyScreenRendered == isLoggedIn /\ isAppLoaded /\ settings # None /\ ~hasApiKey

\* The two effects on [settings, isAppLoaded], run after a render that changed
\* one of them to s and loaded: db.saveSettings(settings), then checkKey().
\* q, hk and ls are dbQueue, hasApiKey and lastSaved as the handler left them;
\* by names what set the settings that are saved.
EffectsBy(s, loaded, q, hk, ls, by) ==
  IF loaded /\ s # None
    THEN /\ dbQueue' = Append(q, PutTx(s[1], by))
         /\ lastSaved' = [ls EXCEPT ![s[1].userId] = s]
         /\ IF s[1].useLocalMode
              THEN hasApiKey' = TRUE /\ UNCHANGED keyChecks
              ELSE hasApiKey' = hk /\ keyChecks' = keyChecks + 1
    ELSE /\ dbQueue' = q
         /\ hasApiKey' = hk
         /\ lastSaved' = ls
         /\ UNCHANGED keyChecks

Effects(s, loaded, q, hk, ls) == EffectsBy(s, loaded, q, hk, ls, "effect")

\* handleLogin up to await Promise.all([db.getSettings(phone), ...])
HandleLogin(phone) ==
  /\ ~isLoggedIn
  /\ loginPc \in {"none", "saving"}
  /\ Len(dbQueue) < MaxPending
  /\ currentUserId' = phone
  /\ isLoggedIn' = TRUE
  /\ dbQueue' = Append(dbQueue, GetTx(phone))
  /\ loginPc' = "reading"
  /\ UNCHANGED <<settings, isAppLoaded, hasApiKey, mode, isVoiceActive, savedSettings,
                 keyChecks, keySelections, requests, settingsStore, lastSaved, authInvalidated>>

\* the oldest transaction runs; the put awaited by handleLogin lets it go on
\* to finally { setIsAppLoaded(true) }
RunTx ==
  /\ dbQueue # <<>>
  /\ LET i == TxToRun(dbQueue)
         tx == dbQueue[i]
         rest == Without(dbQueue, i)
     IN \/ /\ tx.op = "get"
           /\ savedSettings' = StoreGet(settingsStore, tx.key)
           /\ loginPc' = "loaded"
           /\ dbQueue' = rest
           /\ UNCHANGED <<settingsStore, isAppLoaded, hasApiKey, keyChecks, lastSaved>>
        \/ /\ tx.op = "put" /\ tx.by \in {"effect", "fallback"}
           /\ settingsStore' = StorePut(settingsStore, tx.value[1])
           /\ dbQueue' = rest
           /\ UNCHANGED <<savedSettings, loginPc, isAppLoaded, hasApiKey, keyChecks, lastSaved>>
        \/ /\ tx.op = "put" /\ tx.by = "login"
           /\ Len(rest) < MaxPending
           /\ keyChecks < MaxInFlight
           /\ settingsStore' = StorePut(settingsStore, tx.value[1])
           /\ loginPc' = IF loginPc = "saving" THEN "none" ELSE loginPc
           /\ isAppLoaded' = TRUE
           /\ IF isAppLoaded
                THEN dbQueue' = rest /\ UNCHANGED <<hasApiKey, keyChecks, lastSaved>>
                ELSE Effects(settings, TRUE, rest, hasApiKey, lastSaved)
           /\ UNCHANGED savedSettings
  /\ UNCHANGED <<isLoggedIn, currentUserId, settings, mode, isVoiceActive,
                 keySelections, requests, authInvalidated>>

\* handleLogin after the reads resolved
LoginLoaded ==
  /\ loginPc = "loaded"
  /\ keyChecks < MaxInFlight
  /\ \/ /\ savedSettings # None              \* setSettings(savedSettings); finally
        /\ Len(dbQueue) < MaxPending
        /\ settings' = savedSettings
        /\ isAppLoaded' = TRUE
        /\ loginPc' = "none"
        /\ Effects(savedSettings, TRUE, dbQueue, hasApiKey, lastSaved)
     \/ /\ savedSettings = None              \* setSettings(defaults); await db.saveSettings(defaults)
        /\ Len(dbQueue) + 1 < MaxPending
        /\ LET defaults == getDefaults(currentUserId)
           IN /\ settings' = Some(defaults)
              /\ Effects(Some(defaults), isAppLoaded, Append(dbQueue, PutTx(defaults, "login")),
                         hasApiKey, [lastSaved EXCEPT ![currentUserId] = Some(defaults)])
        /\ loginPc' = "saving"
        /\ UNCHANGED isAppLoaded
  /\ savedSettings' = None                   \* the local variable is gone
  /\ UNCHANGED <<isLoggedIn, currentUserId, mode, isVoiceActive,
                 keySelections, requests, settingsStore, authInvalidated>>

\* handleLogin when Promise.all rejects after db.getSettings resolved (the
\* read of 'gallery' or 'diary' failed): catch and finally, then the effects
LoginFailed ==
  /\ loginPc = "loaded"
  /\ keyChecks < MaxInFlight
  /\ Len(dbQueue) < MaxPending
  /\ LET defaults == getDefaults(currentUserId)
     IN /\ settings' = Some(defaults)
        /\ EffectsBy(Some(defaults), TRUE, dbQueue, hasApiKey, lastSaved, "fallback")
  /\ isAppLoaded' = TRUE
  /\ loginPc' = "none"
  /\ savedSettings' = None
  /\ UNCHANGED <<isLoggedIn, currentUserId, mode, isVoiceActive,
                 keySelections, requests, settingsStore, authInvalidated>>

\* checkKey after await window.aistudio.hasSelectedApiKey() resolved to b
CheckKeyResolved(b) ==
  /\ keyChecks > 0
  /\ keyChecks' = keyChecks - 1
  /\ hasApiKey' = (b \/ hasApiKey)
  /\ UNCHANGED <<isLoggedIn, currentUserId, settings, isAppLoaded, mode, isVoiceActive, loginPc,
                 savedSettings, keySelections, requests, settingsStore, dbQueue, lastSaved,
                 authInvalidated>>

\* handleConnect up to await window.aistudio.openSelectKey()
HandleConnect ==
  /\ KeyScreenRendered
  /\ keySelections < MaxInFlight
  /\ keySelections' = keySelections + 1
  /\ UNCHANGED <<isLoggedIn, currentUserId, settings, isAppLoaded, hasApiKey, mode, isVoiceActive,
                 loginPc, savedSettings, keyChecks, requests, settingsStore, dbQueue, lastSaved,
                 authInvalidated>>

\* handleConnect after openSelectKey() resolved
SelectKeyDone ==
  /\ keySelections > 0
  /\ keyChecks < MaxInFlight
  /\ Len(dbQueue) < MaxPending
  /\ keySelections' = keySelections - 1
  /\ settings' = IF settings = None THEN None ELSE Some([settings[1] EXCEPT !.useLocalMode = FALSE])
  /\ Effects(settings', isAppLoaded, dbQueue, TRUE, lastSaved)
  /\ authInvalidated' = FALSE
  /\ UNCHANGED <<isLoggedIn, currentUserId, isAppLoaded, mode, isVoiceActive, loginPc,
                 savedSettings, requests, settingsStore>>

\* handleConnect after openSelectKey() rejected
SelectKeyFailed ==
  /\ keySelections > 0
  /\ keySelections' = keySelections - 1
  /\ UNCHANGED <<isLoggedIn, currentUserId, settings, isAppLoaded, hasApiKey, mode, isVoiceActive,
                 loginPc, savedSettings, keyChecks, requests, settingsStore, dbQueue, lastSaved,
                 authInvalidated>>

\* "Continue Offline"
HandleLocalMode ==
  /\ KeyScreenRendered
  /\ Len(dbQueue) < MaxPending
  /\ settings' = Some([settings[1] EXCEPT !.useLocalMode = TRUE])
  /\ Effects(settings', isAppLoaded, dbQueue, TRUE, lastSaved)
  /\ UNCHANGED <<isLoggedIn, currentUserId, isAppLoaded, mode, isVoiceActive, loginPc,
                 savedSettings, keySelections, requests, settingsStore, authInvalidated>>

\* ChatInterface.handleSend starts a remote request; its closure holds
\* settings.useLocalMode of the render it was made in
IssueRequest ==
  /\ MainRendered /\ mode = "chat"
  /\ ~settings[1].useLocalMode
  /\ Len(requests) < MaxInFlight
  /\ requests' = Append(requests, settings[1].useLocalMode)
  /\ UNCHANGED <<isLoggedIn, currentUserId, settings, isAppLoaded, hasApiKey, mode, isVoiceActive,
                 loginPc, savedSettings, keyChecks, keySelections, settingsStore, dbQueue,
                 lastSaved, authInvalidated>>

\* a remote request ends without a permission error
RequestDone(i) ==
  /\ requests' = Without(requests, i)
  /\ UNCHANGED <<isLoggedIn, currentUserId, settings, isAppLoaded, hasApiKey, mode, isVoiceActive,
                 loginPc, savedSettings, keyChecks, keySelections, settingsStore, dbQueue,
                 lastSaved, authInvalidated>>

\* a remote request ends with a 403: onAuthError() is handleAuthError of the
\* render the request was started in
HandleAuthError(i) ==
  /\ requests' = Without(requests, i)
  /\ IF requests[i]
       THEN UNCHANGED <<hasApiKey, isVoiceActive, authInvalidated>>
       ELSE /\ hasApiKey' = FALSE
            /\ isVoiceActive' = FALSE
            /\ authInvalidated' = TRUE
  /\ UNCHANGED <<isLoggedIn, currentUserId, settings, isAppLoaded, mode, loginPc, savedSettings,
                 keyChecks, keySelections, settingsStore, dbQueue, lastSaved>>

\* the navigation buttons; the diary opens from the settings screen
SetMode(m) ==
  /\ MainRendered
  /\ m # mode
  /\ m = "diary" => mode = "settings"
  /\ mode' = m
  /\ isVoiceActive' = IF m = "voice" THEN TRUE ELSE isVoiceActive   \* startVoiceCall
  /\ UNCHANGED <<isLoggedIn, currentUserId, settings, isAppLoaded, hasApiKey, loginPc,
                 savedSettings, keyChecks, keySelections, requests, settingsStore, dbQueue,
                 lastSaved, authInvalidated>>

\* onEndCall of VoiceInterface
EndCall ==
  /\ MainRendered
  /\ mode = "voice"
  /\ isVoiceActive' = FALSE
  /\ mode' = "chat"
  /\ UNCHANGED <<isLoggedIn, currentUserId, settings, isAppLoaded, hasApiKey, loginPc,
                 savedSettings, keyChecks, keySelections, requests, settingsStore, dbQueue,
                 lastSaved, authInvalidated>>

\* onChange of the name field of the settings screen
EditSettings(n) ==
  /\ MainRendered /\ mode = "settings"
  /\ n # settings[1].name
  /\ keyChecks < MaxInFlight
  /\ Len(dbQueue) < MaxPending
  /\ settings' = Some([settings[1] EXCEPT !.name = n])
  /\ Effects(settings', isAppLoaded, dbQueue, hasApiKey, lastSaved)
  /\ UNCHANGED <<isLoggedIn, currentUserId, isAppLoaded, mode, isVoiceActive, loginPc,
                 savedSettings, keySelections, requests, settingsStore, authInvalidated>>

\* "Log Out"
LogOut ==
  /\ MainRendered /\ mode = "settings"
  /\ isLoggedIn' = FALSE
  /\ settings' = None
  /\ UNCHANGED <<currentUserId, isAppLoaded, hasApiKey, mode, isVoiceActive, loginPc,
                 savedSettings, keyChecks, keySelections, requests, settingsStore, dbQueue,
                 lastSaved, authInvalidated>>

AppInit ==
  /\ isLoggedIn = FALSE
  /\ currentUserId = ""
  /\ settings = None
  /\ isAppLoaded = FALSE
  /\ hasApiKey = FALSE
  /\ mode = "chat"
  /\ isVoiceActive = FALSE
  /\ loginPc = "none"
  /\ savedSettings = None
  /\ keyChecks = 0
  /\ keySelections = 0
  /\ requests = <<>>
  /\ settingsStore = {}
  /\ dbQueue = <<>>
  /\ lastSaved = [u \in Users |-> None]
  /\ authInvalidated = FALSE

----------------------------------------------------------------------------
(* ChatInterface (src/components/ChatInterface.tsx) over the stores         *)
(* 'active_chat' and 'chat_history'.  A message is [id, timestamp]: its    *)
(* other fields take no part in what the component does with it.  An id is  *)
(* the time it was made at (Date.now().toString()) or InitId for the id     *)
(* 'init'.  App is seen as the party that unmounts the component and mounts *)
(* a new one.                                                               *)

MaxTime == 2

MaxMessages == 3

MaxSessions == 1

MaxSends == 2

\* the id 'init' of the greeting loadDB makes
InitId == 0

Greeting(id, t) == [id |-> id, timestamp |-> t]

\* the order of the keys of a store: strings, so 'init' is after every number
IdBefore(a, b) == a # InitId /\ (b = InitId \/ a < b)

RECURSIVE InKeyOrder(_)
\* IDBIndex.getAll: the records in the order of their keys
InKeyOrder(S) ==
  IF S = {} THEN <<>>
  ELSE LET first == CHOOSE x \in S : \A y \in S \ {x} : IdBefore(x.id, y.id)
       IN <<first>> \o InKeyOrder(S \ {first})

IsSorted(msgs) ==
  \A i, j \in 1..Len(msgs) : i < j => msgs[i].timestamp <= msgs[j].timestamp

\* x goes behind the elements that are not after it
InsertByTimestamp(x, sorted) ==
  LET k == Cardinality({i \in 1..Len(sorted) : sorted[i].timestamp <= x.timestamp})
  IN SubSeq(sorted, 1, k) \o <<x>> \o SubSeq(sorted, k + 1, Len(sorted))

RECURSIVE SortFrom(_, _)
SortFrom(msgs, sorted) ==
  IF msgs = <<>> THEN sorted
  ELSE SortFrom(Tail(msgs), InsertByTimestamp(Head(msgs), sorted))

SortByTimestamp_Unsorted(msgs) == msgs

\* msgs.sort((a, b) => a.timestamp - b.timestamp)
SortByTimestamp(msgs) == SortFrom(msgs, <<>>)

RECURSIVE NewestFirstFrom(_, _)
NewestFirstFrom(ss, sorted) ==
  IF ss = <<>> THEN sorted
  ELSE LET x == Head(ss)
           k == Cardinality({i \in 1..Len(sorted) : sorted[i].timestamp >= x.timestamp})
       IN NewestFirstFrom(Tail(ss), SubSeq(sorted, 1, k) \o <<x>> \o SubSeq(sorted, k + 1, Len(sorted)))

\* savedHistory.sort((a, b) => b.timestamp - a.timestamp)
SortNewestFirst(ss) == NewestFirstFrom(ss, <<>>)

\* db.saveActiveChat(userId, msgs): the user's records are deleted and every
\* message is put, a later one over an earlier one of the same id
saveActiveChat(msgs) ==
  {msgs[i] : i \in {k \in 1..Len(msgs) : \A j \in (k + 1)..Len(msgs) : msgs[j].id # msgs[k].id}}

\* the effect on [messages, isDBLoaded]: what 'active_chat' holds after a
\* render with the messages msgs
AutoSave(msgs, loaded, store) ==
  IF loaded /\ Len(msgs) > 0 THEN saveActiveChat(msgs) ELSE store

\* db.put('chat_history', s)
PutSession(store, s) == {x \in store : x.id # s.id} \cup {s}

\* the guard of handleSend that lets a run go on
MaySend_IgnoringLoading(input, loading) == input

MaySend(input, loading) == input /\ ~loading

\* indices of the handleSend runs of the mounted component that await sendMessage
InFlight == {i \in 1..Len(sends) : sends[i].pc = "request"}

\* every running handleSend now belongs to a conversation that was replaced
Replaced(ss) == [i \in 1..Len(ss) |-> [ss[i] EXCEPT !.replaced = TRUE]]

\* a second of the clock Date.now() reads
Tick ==
  /\ now < MaxTime
  /\ now' = now + 1
  /\ UNCHANGED <<messages, history, isDBLoaded, inputValue, isLoading, sends, greetTimers,
                 activeChat, chatHistory, strayReply, loadedFromStore>>

\* loadDB after the two reads resolved
LoadDB ==
  /\ ~isDBLoaded
  /\ LET savedMessages == InKeyOrder(activeChat)
         savedHistory == SortNewestFirst(InKeyOrder(chatHistory))
         loaded == IF Len(savedMessages) > 0
                     THEN SortByTimestamp(savedMessages)
                     ELSE <<Greeting(InitId, now)>>
     IN /\ messages' = loaded
        /\ history' = savedHistory
        /\ activeChat' = AutoSave(loaded, TRUE, activeChat)
        /\ loadedFromStore' = (Len(savedMessages) > 0)
  /\ isDBLoaded' = TRUE
  /\ UNCHANGED <<now, inputValue, isLoading, sends, greetTimers, chatHistory, strayReply>>

\* onChange of the input field
TypeChat ==
  /\ isDBLoaded
  /\ ~inputValue
  /\ inputValue' = TRUE
  /\ UNCHANGED <<now, messages, history, isDBLoaded, isLoading, sends, greetTimers,
                 activeChat, chatHistory, strayReply, loadedFromStore>>

\* handleSend (send button or Enter) up to its first await
HandleSend ==
  /\ isDBLoaded
  /\ MaySend(inputValue, isLoading)
  /\ Len(messages) < MaxMessages
  /\ Len(sends) < MaxSends
  /\ messages' = Append(messages, [id |-> now, timestamp |-> now])
  /\ inputValue' = FALSE
  /\ isLoading' = TRUE
  /\ sends' = Append(sends, [pc |-> "context", replaced |-> FALSE])
  /\ activeChat' = AutoSave(messages', isDBLoaded, activeChat)
  /\ UNCHANGED <<now, history, isDBLoaded, greetTimers, chatHistory, strayReply, loadedFromStore>>

\* handleSend after await getLastImageBase64(): geminiService.sendMessage is called
CallSendMessage(i) ==
  /\ sends[i].pc = "context"
  /\ sends' = [sends EXCEPT ![i].pc = "request"]
  /\ UNCHANGED <<now, messages, history, isDBLoaded, inputValue, isLoading, greetTimers,
                 activeChat, chatHistory, strayReply, loadedFromStore>>

\* sendMessage resolved: the reply is appended; finally
ReplyArrives(i) ==
  /\ sends[i].pc = "request"
  /\ sends' = Without(sends, i)
  /\ Len(messages) < MaxMessages
  /\ messages' = Append(messages, [id |-> now, timestamp |-> now])
  /\ isLoading' = FALSE
  /\ activeChat' = AutoSave(messages', isDBLoaded, activeChat)
  /\ strayReply' = (strayReply \/ sends[i].replaced)
  /\ UNCHANGED <<now, history, isDBLoaded, inputValue, greetTimers, chatHistory, loadedFromStore>>

\* sendMessage rejected: onAuthError() for a 403, the failure notice otherwise; finally
SendFails(i, is403) ==
  /\ sends[i].pc = "request"
  /\ sends' = Without(sends, i)
  /\ isLoading' = FALSE
  /\ IF is403
       THEN UNCHANGED <<messages, activeChat>>
       ELSE /\ Len(messages) < MaxMessages
            /\ messages' = Append(messages, [id |-> now, timestamp |-> now])
            /\ activeChat' = AutoSave(messages', isDBLoaded, activeChat)
  /\ UNCHANGED <<now, history, isDBLoaded, inputValue, greetTimers, chatHistory, strayReply,
                 loadedFromStore>>

\* archiveCurrentSession: what it makes of history and 'chat_history'
Archived(h, store) ==
  IF Len(messages) <= 1
    THEN <<h, store>>
    ELSE LET newSession == [id |-> now, timestamp |-> now, messages |-> messages]
         IN <<(<<newSession>> \o h), PutSession(store, newSession)>>

\* handleNewChat with the answer to window.confirm, and startFreshSession up
\* to setTimeout
HandleNewChat(confirmed) ==
  /\ isDBLoaded
  /\ greetTimers < MaxInFlight
  /\ LET a == IF confirmed THEN Archived(history, chatHistory) ELSE <<history, chatHistory>>
     IN /\ Len(a[1]) <= MaxSessions
        /\ history' = a[1]
        /\ chatHistory' = a[2]
  /\ messages' = <<>>
  /\ activeChat' = saveActiveChat(<<>>)
  /\ greetTimers' = greetTimers + 1
  /\ sends' = Replaced(sends)
  /\ strayReply' = FALSE
  /\ loadedFromStore' = FALSE
  /\ UNCHANGED <<now, isDBLoaded, inputValue, isLoading>>

\* the timeout of startFreshSession
GreetingTimer ==
  /\ greetTimers > 0
  /\ greetTimers' = greetTimers - 1
  /\ messages' = <<Greeting(now, now)>>
  /\ activeChat' = AutoSave(messages', isDBLoaded, activeChat)
  /\ strayReply' = FALSE
  /\ UNCHANGED <<now, history, isDBLoaded, inputValue, isLoading, sends, chatHistory,
                 loadedFromStore>>

\* handleLoadSession(history[k])
HandleLoadSession(k) ==
  /\ isDBLoaded
  /\ LET a == Archived(history, chatHistory)
     IN /\ Len(a[1]) <= MaxSessions
        /\ history' = a[1]
        /\ chatHistory' = a[2]
  /\ messages' = history[k].messages
  /\ activeChat' = AutoSave(messages', isDBLoaded, activeChat)
  /\ sends' = Replaced(sends)
  /\ strayReply' = FALSE
  /\ loadedFromStore' = FALSE
  /\ UNCHANGED <<now, isDBLoaded, inputValue, isLoading, greetTimers>>

\* App renders another screen and later this one again: a new component
\* with the initial state.  The handleSend runs and the timeouts of the old
\* one go on, but change nothing of the new one, and are left out.
Remount ==
  /\ isDBLoaded
  /\ messages' = <<>>
  /\ history' = <<>>
  /\ isDBLoaded' = FALSE
  /\ inputValue' = FALSE
  /\ isLoading' = FALSE
  /\ greetTimers' = 0
  /\ sends' = <<>>
  /\ strayReply' = FALSE
  /\ loadedFromStore' = FALSE
  /\ UNCHANGED <<now, activeChat, chatHistory>>

ChatInit ==
  /\ now = 1
  /\ messages = <<>>
  /\ history = <<>>
  /\ isDBLoaded = FALSE
  /\ inputValue = FALSE
  /\ isLoading = FALSE
  /\ sends = <<>>
  /\ greetTimers = 0
  /\ activeChat = {}
  /\ chatHistory = {}
  /\ strayReply = FALSE
  /\ loadedFromStore = FALSE

----------------------------------------------------------------------------
(* VoiceInterface (src/components/VoiceInterface.tsx).  A call of           *)
(* handleStartCall is a session; its sessionId is the reading of Date.now() *)
(* it began with, here the number of the call.  What the session's code and *)
(* callbacks may still do is kept per session in session.  A source is      *)
(* <<session, k>>.                                                          *)

MaxCalls == 3

MaxSources == 1

SessionIds == 1..MaxCalls

NoSession == 0

IdleCall ==
  [pc |-> "none", isOpen |-> FALSE, ctxClosed |-> FALSE, decoding |-> FALSE,
   story |-> FALSE, trigger |-> FALSE]

\* the sessions whose audio contexts outputContextRef and inputContextRef hold
ContextOwners == {s \in SessionIds : session[s].pc # "none" /\ \A t \in SessionIds : t > s => session[t].pc = "none"}

\* the state the session-identifier guard is to protect
callState == <<status, aiState, isAuraSpeaking, connectionRef, sourcesRef, nextStartTimeRef,
               sessionActionsRef, lastForwarder>>

\* the step just taken is of session s: it counts as a stale write when the
\* identifier had been replaced and the step changed the protected state
Observe(s) ==
  staleWrite' = (staleWrite \/ (activeSessionIdRef # s /\ callState' # callState))

\* handleStartCall(overrideInstruction) up to await outputCtx.resume(), with
\* connected the value of connectionRef.current it finds.  MaxCalls bounds
\* the sessions; one more call that returns at once takes an identifier.
handleStartCall(connected, override) ==
  /\ nextSessionId <= MaxCalls \/ (connected /\ nextSessionId = MaxCalls + 1)
  /\ nextSessionId' = nextSessionId + 1
  /\ activeSessionIdRef' = nextSessionId
  /\ IF connected
       THEN /\ connectionRef' = connected
            /\ UNCHANGED <<status, isSwitchingMode, session>>
       ELSE /\ connectionRef' = TRUE
            /\ status' = "connecting"
            /\ isSwitchingMode' = FALSE
            /\ session' = [session EXCEPT ![nextSessionId] =
                           [IdleCall EXCEPT !.pc = "resume", !.story = override]]
  /\ UNCHANGED <<aiState, isAuraSpeaking, sourcesRef, nextStartTimeRef, sessionActionsRef,
                 lastForwarder, playing, staleWrite>>

\* the effect "Auto Start"
AutoStart ==
  /\ status = "idle" /\ ~connectionRef /\ ~isSwitchingMode
  /\ handleStartCall(connectionRef, FALSE)
  /\ UNCHANGED <<isStoryMode, storyTimer>>

\* the button shown for status 'error': connectionRef.current = false; handleStartCall()
RetryCall ==
  /\ status = "error"
  /\ handleStartCall(FALSE, FALSE)
  /\ UNCHANGED <<isStoryMode, storyTimer>>

\* the timeout of startImmersiveStory: handleStartCall(storyPrompt)
StoryTimer ==
  /\ storyTimer
  /\ storyTimer' = FALSE
  /\ handleStartCall(connectionRef, TRUE)
  /\ UNCHANGED isStoryMode

\* cleanup(): the sources are stopped and stay in sourcesRef, the session in
\* sessionActionsRef is asked to close, the audio contexts are closed
StartImmersiveStory ==
  /\ status = "connected" /\ ~isStoryMode
  /\ isStoryMode' = TRUE
  /\ isSwitchingMode' = TRUE
  /\ connectionRef' = FALSE
  /\ status' = "connecting"
  /\ storyTimer' = TRUE
  /\ session' = [s \in SessionIds |-> IF s \in ContextOwners THEN [session[s] EXCEPT !.ctxClosed = TRUE]
                                                        ELSE session[s]]
  /\ UNCHANGED <<activeSessionIdRef, nextSessionId, aiState, isAuraSpeaking, sourcesRef,
                 nextStartTimeRef, sessionActionsRef, lastForwarder, playing, staleWrite>>

\* handleStartCall after the awaits of resume(): connectLiveSession is called
Resumed(s) ==
  /\ session[s].pc = "resume"
  /\ session' = [session EXCEPT ![s].pc = "connect"]
  /\ UNCHANGED <<activeSessionIdRef, nextSessionId, connectionRef, status, aiState,
                 isAuraSpeaking, sourcesRef, nextStartTimeRef, sessionActionsRef, lastForwarder,
                 isSwitchingMode, isStoryMode, storyTimer, playing, staleWrite>>

Connected_Unguarded(s) ==
  /\ session[s].pc = "connect"
  /\ sessionActionsRef' = s
  /\ session' = [session EXCEPT ![s].pc = "mic", ![s].isOpen = TRUE,
                            ![s].trigger = session[s].story]
  /\ UNCHANGED <<activeSessionIdRef, nextSessionId, connectionRef, status, aiState,
                 isAuraSpeaking, sourcesRef, nextStartTimeRef, lastForwarder, isSwitchingMode,
                 isStoryMode, storyTimer, playing>>
  /\ Observe(s)

\* handleStartCall after await connectLiveSession(...): the connection is
\* being made and its callbacks may come
Connected(s) ==
  /\ session[s].pc = "connect"
  /\ IF activeSessionIdRef # s
       THEN /\ session' = [session EXCEPT ![s].pc = "ended", ![s].isOpen = TRUE]   \* actions.disconnect()
            /\ UNCHANGED sessionActionsRef
       ELSE /\ sessionActionsRef' = s
            /\ session' = [session EXCEPT ![s].pc = "mic", ![s].isOpen = TRUE,
                                      ![s].trigger = session[s].story]
  /\ UNCHANGED <<activeSessionIdRef, nextSessionId, connectionRef, status, aiState,
                 isAuraSpeaking, sourcesRef, nextStartTimeRef, lastForwarder, isSwitchingMode,
                 isStoryMode, storyTimer, playing>>
  /\ Observe(s)

\* handleStartCall after await getUserMedia(...): the processor is installed
MicGranted(s) ==
  /\ session[s].pc = "mic"
  /\ ~session[s].ctxClosed
  /\ session' = [session EXCEPT ![s].pc = "live"]
  /\ status' = "connected"
  /\ UNCHANGED <<activeSessionIdRef, nextSessionId, connectionRef, aiState, isAuraSpeaking,
                 sourcesRef, nextStartTimeRef, sessionActionsRef, lastForwarder, isSwitchingMode,
                 isStoryMode, storyTimer, playing>>
  /\ Observe(s)

\* the catch block of handleStartCall, for an await that rejected
StartFailed(s) ==
  /\ session[s].pc \in {"connect", "mic"}
  /\ session' = [session EXCEPT ![s].pc = "ended"]
  /\ IF activeSessionIdRef = s
       THEN connectionRef' = FALSE /\ status' = "error"
       ELSE UNCHANGED <<connectionRef, status>>
  /\ UNCHANGED <<activeSessionIdRef, nextSessionId, aiState, isAuraSpeaking, sourcesRef,
                 nextStartTimeRef, sessionActionsRef, lastForwarder, isSwitchingMode,
                 isStoryMode, storyTimer, playing>>
  /\ Observe(s)

\* onMessage({ audio }) up to await decodeAudioData(...)
OnAudio(s) ==
  /\ session[s].isOpen
  /\ ~session[s].decoding
  /\ IF activeSessionIdRef # s \/ session[s].ctxClosed
       THEN UNCHANGED <<aiState, nextStartTimeRef, session>>
       ELSE /\ aiState' = "speaking"
            /\ nextStartTimeRef' \in {nextStartTimeRef, s}      \* if (nextStartTimeRef.current < currentTime)
            /\ session' = [session EXCEPT ![s].decoding = TRUE]
  /\ UNCHANGED <<activeSessionIdRef, nextSessionId, connectionRef, status, isAuraSpeaking,
                 sourcesRef, sessionActionsRef, lastForwarder, isSwitchingMode, isStoryMode,
                 storyTimer, playing>>
  /\ Observe(s)

\* onMessage({ audio }) after await decodeAudioData(...): the source is started
Decoded(s) ==
  /\ session[s].decoding
  /\ session' = [session EXCEPT ![s].decoding = FALSE]
  /\ IF session[s].ctxClosed
       THEN UNCHANGED <<nextStartTimeRef, sourcesRef, playing, isAuraSpeaking>>
       ELSE /\ \E k \in 1..MaxSources : <<s, k>> \notin (sourcesRef \cup playing)
            /\ LET source == <<s, CHOOSE k \in 1..MaxSources : <<s, k>> \notin (sourcesRef \cup playing)>>
               IN /\ sourcesRef' = sourcesRef \cup {source}
                  /\ playing' = playing \cup {source}
            /\ nextStartTimeRef' = s
            /\ isAuraSpeaking' = TRUE
  /\ UNCHANGED <<activeSessionIdRef, nextSessionId, connectionRef, status, aiState,
                 sessionActionsRef, lastForwarder, isSwitchingMode, isStoryMode, storyTimer>>
  /\ Observe(s)

\* onMessage({ interrupted: true })
OnInterrupted(s) ==
  /\ session[s].isOpen
  /\ IF activeSessionIdRef # s
       THEN UNCHANGED <<sourcesRef, nextStartTimeRef, aiState>>
       ELSE /\ sourcesRef' = {}
            /\ nextStartTimeRef' = s
            /\ aiState' = "listening"
  /\ UNCHANGED <<activeSessionIdRef, nextSessionId, connectionRef, status, isAuraSpeaking,
                 sessionActionsRef, lastForwarder, isSwitchingMode, isStoryMode, storyTimer,
                 session, playing>>
  /\ Observe(s)

\* onMessage({ turnComplete: true })
OnTurnComplete(s) ==
  /\ session[s].isOpen
  /\ aiState' = IF activeSessionIdRef = s /\ sourcesRef = {} THEN "listening" ELSE aiState
  /\ UNCHANGED <<activeSessionIdRef, nextSessionId, connectionRef, status, isAuraSpeaking,
                 sourcesRef, nextStartTimeRef, sessionActionsRef, lastForwarder, isSwitchingMode,
                 isStoryMode, storyTimer, session, playing>>
  /\ Observe(s)

\* source.onended
SourceEnded(source) ==
  /\ source \in playing
  /\ playing' = playing \ {source}
  /\ sourcesRef' = sourcesRef \ {source}
  /\ IF sourcesRef' = {}
       THEN aiState' = "listening" /\ isAuraSpeaking' = FALSE
       ELSE UNCHANGED <<aiState, isAuraSpeaking>>
  /\ UNCHANGED <<activeSessionIdRef, nextSessionId, connectionRef, status, nextStartTimeRef,
                 sessionActionsRef, lastForwarder, isSwitchingMode, isStoryMode, storyTimer, session>>
  /\ Observe(source[1])

\* processor.onaudioprocess: the audio goes to actions.sendAudio
AudioProcess(s) ==
  /\ session[s].pc = "live"
  /\ ~session[s].ctxClosed
  /\ lastForwarder' = IF activeSessionIdRef # s THEN lastForwarder ELSE s
  /\ UNCHANGED <<activeSessionIdRef, nextSessionId, connectionRef, status, aiState,
                 isAuraSpeaking, sourcesRef, nextStartTimeRef, sessionActionsRef,
                 isSwitchingMode, isStoryMode, storyTimer, session, playing>>
  /\ Observe(s)

\* the timeout of the trigger sequence: handleSendText(..., true)
StoryTrigger(s) ==
  /\ session[s].trigger
  /\ session' = [session EXCEPT ![s].trigger = FALSE]
  /\ IF activeSessionIdRef = s
       THEN aiState' = "thinking" /\ sourcesRef' = {}
       ELSE UNCHANGED <<aiState, sourcesRef>>
  /\ UNCHANGED <<activeSessionIdRef, nextSessionId, connectionRef, status, isAuraSpeaking,
                 nextStartTimeRef, sessionActionsRef, lastForwarder, isSwitchingMode,
                 isStoryMode, storyTimer, playing>>
  /\ Observe(s)

\* onClose: the connection of session s closed or failed
OnClose(s) ==
  /\ session[s].isOpen
  /\ session' = [session EXCEPT ![s].isOpen = FALSE]
  /\ IF activeSessionIdRef = s
       THEN /\ status' = IF isSwitchingMode THEN status ELSE "error"
            /\ connectionRef' = FALSE
       ELSE UNCHANGED <<status, connectionRef>>
  /\ UNCHANGED <<activeSessionIdRef, nextSessionId, aiState, isAuraSpeaking, sourcesRef,
                 nextStartTimeRef, sessionActionsRef, lastForwarder, isSwitchingMode,
                 isStoryMode, storyTimer, playing>>
  /\ Observe(s)

VoiceInit ==
  /\ activeSessionIdRef = NoSession
  /\ nextSessionId = 1
  /\ connectionRef = FALSE
  /\ status = "idle"
  /\ aiState = "listening"
  /\ isAuraSpeaking = FALSE
  /\ sourcesRef = {}
  /\ nextStartTimeRef = NoSession
  /\ sessionActionsRef = NoSession
  /\ lastForwarder = NoSession
  /\ isSwitchingMode = FALSE
  /\ isStoryMode = FALSE
  /\ storyTimer = FALSE
  /\ session = [s \in SessionIds |-> IdleCall]
  /\ playing = {}
  /\ staleWrite = FALSE

----------------------------------------------------------------------------
(* The audio of one live call of VoiceInterface: the session whose          *)
(* identifier is the active one, with its audio contexts open.  Times are    *)
(* readings of outputCtx.currentTime; a chunk is numbered by its arrival.   *)
(* decodeAudioData is an async function without an await of its own, so    *)
(* what follows `await decodeAudioData(...)` runs as a microtask when the    *)
(* handler of the server message has returned, before any other event.      *)

MaxClock == 2

MaxDur == 1

MaxChunks == 2

\* the duration of a chunk's buffer, in units of the output clock
Durations == 1..MaxDur

\* what modelTurn.parts[0].inlineData.data of a server message is: absent,
\* data that decode or decodeAudioData throws on, or a buffer of a duration
NoAudio == 0

BadAudio == -1

AudioData == {NoAudio, BadAudio} \cup Durations

Max_First(a, b) == a

Max(a, b) == IF a < b THEN b ELSE a

\* sourcesRef.current.forEach(s => s.stop()); sourcesRef.current = []
StopAll(srcs, stp) == stp \cup (srcs \cap awaitingEnded)

\* LiveServerMessage handled by the onmessage callback of connectLiveSession
\* and by the onMessage callback of handleStartCall it calls for each part:
\* onMessage({ audio }) up to its await, onMessage({ interrupted: true }),
\* onMessage({ turnComplete: true }), then the rest of onMessage({ audio })
OnServerMessage(audio, interrupted, turnComplete) ==
  /\ liveCall # <<>> /\ ~liveCall[1].closed
  /\ audio # NoAudio \/ interrupted \/ turnComplete
  /\ audio # NoAudio => arrived < MaxChunks
  /\ LET hasAudio  == audio # NoAudio
         chunk     == arrived + 1
         \* onMessage({ audio }): lines 135-141
         ai1       == IF hasAudio THEN "speaking" ELSE aiState
         next1     == IF hasAudio THEN Max(nextStartTime, outputTime) ELSE nextStartTime
         \* onMessage({ interrupted: true }): lines 118-125
         stopped2  == IF interrupted THEN StopAll(sources, stopped) ELSE stopped
         sources2  == IF interrupted THEN {} ELSE sources
         next2     == IF interrupted THEN outputTime ELSE next1
         ai2       == IF interrupted THEN "listening" ELSE ai1
         \* onMessage({ turnComplete: true }): lines 127-133
         ai3       == IF turnComplete /\ sources2 = {} THEN "listening" ELSE ai2
         \* onMessage({ audio }) after its await: lines 142-157
         decoded   == audio \in Durations
         source    == [chunk |-> chunk, start |-> next2, end |-> next2 + audio]
     IN /\ arrived' = IF hasAudio THEN chunk ELSE arrived
        /\ aiState' = ai3
        /\ stopped' = stopped2
        /\ IF decoded
             THEN /\ sources' = sources2 \cup {source}
                  /\ awaitingEnded' = awaitingEnded \cup {source}
                  /\ nextStartTime' = next2 + audio
                  /\ isAuraSpeaking' = TRUE
                  /\ scheduled' = Append(scheduled,
                                    [chunk |-> chunk, start |-> source.start, end |-> source.end,
                                     time |-> outputTime,
                                     atMax |-> source.start = Max(nextStartTime, outputTime),
                                     afterInterrupt |-> interrupted \/ (lastInterrupt # <<>> /\ lastInterrupt[1].fresh)])
             ELSE /\ sources' = sources2
                  /\ nextStartTime' = next2
                  /\ UNCHANGED <<awaitingEnded, isAuraSpeaking, scheduled>>
        /\ lastInterrupt' =
             IF interrupted THEN <<[arrived |-> arrived', time |-> outputTime, fresh |-> ~decoded]>>
             ELSE IF decoded /\ lastInterrupt # <<>> THEN <<[lastInterrupt[1] EXCEPT !.fresh = FALSE]>>
             ELSE lastInterrupt
  /\ UNCHANGED outputTime

\* source.onended of a source that played to its end or was stopped
OnEnded(source) ==
  /\ source \in awaitingEnded
  /\ source \in stopped \/ source.end <= outputTime
  /\ awaitingEnded' = awaitingEnded \ {source}
  /\ stopped' = stopped \ {source}
  /\ sources' = sources \ {source}
  /\ IF sources' = {}
       THEN aiState' = "listening" /\ isAuraSpeaking' = FALSE
       ELSE UNCHANGED <<aiState, isAuraSpeaking>>
  /\ UNCHANGED <<outputTime, nextStartTime, arrived, scheduled, lastInterrupt>>

\* the output clock advances
ClockTick ==
  /\ outputTime < MaxClock
  /\ outputTime' = outputTime + 1
  /\ UNCHANGED <<nextStartTime, sources, awaitingEnded, stopped, arrived, scheduled, lastInterrupt,
                 aiState, isAuraSpeaking>>

AudioInit ==
  /\ outputTime = 0
  /\ nextStartTime = 0
  /\ sources = {}
  /\ awaitingEnded = {}
  /\ stopped = {}
  /\ arrived = 0
  /\ scheduled = <<>>
  /\ lastInterrupt = <<>>

----------------------------------------------------------------------------
(* The microphone of the live call.  Time for the timeouts is counted in    *)
(* halves of the pause of handleSendText; rms is in hundredths.              *)

MaxPauseTimers == 2

\* setTimeout(..., 1000), in ticks of 500 ms
PauseTicks == 2

\* createScriptProcessor(1024, 1, 1)
FrameLength == 1024

\* values of rms around the thresholds 0.01 and 0.05, in hundredths
RmsValues == {0, 1, 3, 5, 6}

GateThreshold == 5

Min(a, b) == IF a < b THEN a ELSE b

\* handleStartCall up to the installation of processor.onaudioprocess: the
\* handler closes over isMuted of the render whose handleStartCall was called
CallStarted ==
  /\ liveCall' = <<[isMuted |-> isMuted, closed |-> FALSE]>>
  /\ liveCall' # liveCall
  /\ UNCHANGED <<isMuted, pauseAudioSendingRef, pauseTimers, silenceBufferRef, sinceText, lastFrame>>

\* the microphone button: setIsMuted(!isMuted)
ToggleMute ==
  /\ isMuted' = ~isMuted
  /\ UNCHANGED <<liveCall, pauseAudioSendingRef, pauseTimers, silenceBufferRef, sinceText, lastFrame>>

\* handleSendText(text) for a text that is not blank
HandleSendText ==
  /\ aiState' = "thinking"
  /\ stopped' = StopAll(sources, stopped)
  /\ sources' = {}
  /\ IF liveCall # <<>>                       \* if (sessionActionsRef.current)
       THEN /\ Len(pauseTimers) < MaxPauseTimers
            /\ pauseAudioSendingRef' = TRUE
            /\ pauseTimers' = Append(pauseTimers, PauseTicks)
            /\ sinceText' = 0
       ELSE UNCHANGED <<pauseAudioSendingRef, pauseTimers, sinceText>>
  /\ UNCHANGED <<isAuraSpeaking, outputTime, nextStartTime, awaitingEnded, arrived, scheduled,
                 lastInterrupt, isMuted, liveCall, silenceBufferRef, lastFrame>>

\* cleanup() (hang up, story mode, unmount): the sources are stopped, the
\* session is disconnected and the audio contexts are closed;
\* sessionActionsRef.current and the timeouts of handleSendText stay
Cleanup ==
  /\ liveCall # <<>> /\ ~liveCall[1].closed
  /\ liveCall' = <<[liveCall[1] EXCEPT !.closed = TRUE]>>
  /\ stopped' = StopAll(sources, stopped)
  /\ UNCHANGED <<outputTime, nextStartTime, sources, awaitingEnded, arrived, scheduled,
                 lastInterrupt, isMuted, pauseAudioSendingRef, pauseTimers, silenceBufferRef,
                 sinceText, lastFrame>>

PauseTimeout_WhileLive ==
  /\ pauseTimers # <<>> /\ Head(pauseTimers) = 0
  /\ pauseTimers' = Tail(pauseTimers)
  /\ pauseAudioSendingRef' = (pauseAudioSendingRef /\ liveCall[1].closed)
  /\ UNCHANGED <<isMuted, liveCall, silenceBufferRef, sinceText, lastFrame>>

\* the timeout of handleSendText
PauseTimeout ==
  /\ pauseTimers # <<>> /\ Head(pauseTimers) = 0
  /\ pauseTimers' = Tail(pauseTimers)
  /\ pauseAudioSendingRef' = FALSE
  /\ UNCHANGED <<isMuted, liveCall, silenceBufferRef, sinceText, lastFrame>>

\* 500 ms pass
MsTick ==
  /\ sinceText < PauseTicks \/ \E i \in 1..Len(pauseTimers) : pauseTimers[i] > 0
  /\ sinceText' = Min(sinceText + 1, PauseTicks)
  /\ pauseTimers' = [i \in 1..Len(pauseTimers) |-> Max(pauseTimers[i] - 1, 0)]
  /\ UNCHANGED <<isMuted, liveCall, pauseAudioSendingRef, silenceBufferRef, lastFrame>>

\* processor.onaudioprocess of the active session for a frame of volume rms
OnAudioProcess(rms) ==
  /\ liveCall # <<>> /\ ~liveCall[1].closed
  /\ LET isAiTalking == sources # {}
         returns     == liveCall[1].isMuted \/ pauseAudioSendingRef
         sent        == IF returns THEN <<>>
                        ELSE IF isAiTalking /\ ~(rms > GateThreshold)
                               THEN <<[len |-> FrameLength, data |-> "zeros"]>>
                               ELSE <<[len |-> FrameLength, data |-> "captured"]>>
     IN /\ silenceBufferRef' = IF returns THEN silenceBufferRef ELSE FrameLength
        /\ lastFrame' = <<[loud |-> rms > GateThreshold, len |-> FrameLength, muted |-> isMuted,
                           paused |-> pauseAudioSendingRef, talking |-> isAiTalking,
                           sinceText |-> sinceText, sent |-> sent]>>
  /\ UNCHANGED <<isMuted, liveCall, pauseAudioSendingRef, pauseTimers, sinceText>>

MicInit ==
  /\ isMuted = FALSE
  /\ liveCall = <<>>
  /\ pauseAudioSendingRef = FALSE
  /\ pauseTimers = <<>>
  /\ silenceBufferRef = 0
  /\ sinceText = PauseTicks
  /\ lastFrame = <<>>

----------------------------------------------------------------------------
(* GeminiService.sendMessage (src/unnamed/part_002) after the chat call     *)
(* resolved.  The reply is a sequence of fragments; a fragment is never      *)
(* split or joined by the operations on it.                                  *)

MaxReplyLen == 4

ReplyTokens == {"hi", " ", "\n", "[GENERATE_IMAGE:", "[generate_image:", "]"}

Replies == UNION { [1..n -> ReplyTokens] : n \in 0..MaxReplyLen }

IsSpace(tok) == tok \in {" ", "\n"}

\* the fragments the regular expression's \[GENERATE_IMAGE: matches, with flag i
IsTagOpen(tok) == tok \in {"[GENERATE_IMAGE:", "[generate_image:"}

\* the end of \s* when the match begins at i
PromptStart(text, i) ==
  LET rest == {k \in (i + 1)..Len(text) : ~IsSpace(text[k])}
  IN IF rest = {} THEN Len(text) + 1 ELSE CHOOSE k \in rest : \A m \in rest : k <= m

\* where the match of /\[GENERATE_IMAGE:\s*(.*?)\]/i that begins at i ends, 0
\* if there is none: (.*?) takes the fewest characters, none of them a newline
MatchEnd(text, i) ==
  LET closes == {j \in (i + 1)..Len(text) : text[j] = "]"}
      j      == CHOOSE c \in closes : \A m \in closes : c <= m
  IN IF ~IsTagOpen(text[i]) \/ closes = {} THEN 0
     ELSE IF \E k \in PromptStart(text, i)..(j - 1) : text[k] = "\n" THEN 0
     ELSE j

\* rawText.match(imageTagRegex): where the leftmost match begins, 0 if none
MatchStart(text) ==
  LET starts == {i \in 1..Len(text) : MatchEnd(text, i) # 0}
  IN IF starts = {} THEN 0 ELSE CHOOSE i \in starts : \A m \in starts : i <= m

\* match[1]
MatchedPrompt(text) ==
  LET i == MatchStart(text)
  IN SubSeq(text, PromptStart(text, i), MatchEnd(text, i) - 1)

\* rawText.replace(imageTagRegex, ""): the regular expression has no flag g
ReplaceFirst(text) ==
  LET i == MatchStart(text)
  IN IF i = 0 THEN text
     ELSE SubSeq(text, 1, i - 1) \o SubSeq(text, MatchEnd(text, i) + 1, Len(text))

RECURSIVE TrimStart(_)
TrimStart(text) ==
  IF text # <<>> /\ IsSpace(Head(text)) THEN TrimStart(Tail(text)) ELSE text

RECURSIVE TrimEnd(_)
TrimEnd(text) ==
  IF text # <<>> /\ IsSpace(text[Len(text)]) THEN TrimEnd(SubSeq(text, 1, Len(text) - 1)) ELSE text

\* String.prototype.trim
Trim(text) == TrimEnd(TrimStart(text))

\* sendMessage from the resolution of the chat call to the await of
\* generateImage or, without a match, to its return
ReplyReceived(text) ==
  /\ replyPc = "idle"
  /\ modelReply' = text
  /\ rawText' = text
  /\ generatedImage' = FALSE
  /\ IF MatchStart(text) # 0
       THEN /\ imageCalls' = <<MatchedPrompt(text)>>
            /\ replyPc' = "image"
       ELSE /\ imageCalls' = <<>>
            /\ replyPc' = "returned"

\* sendMessage after generateImage resolved (ok) or rejected, to its return
SelfieSettled(ok) ==
  /\ replyPc = "image"
  /\ generatedImage' = ok
  /\ rawText' = Trim(ReplaceFirst(rawText))
  /\ replyPc' = "returned"
  /\ UNCHANGED <<modelReply, imageCalls>>

\* the next call of sendMessage comes to this point
NextTurn ==
  /\ replyPc = "returned"
  /\ replyPc' = "idle"
  /\ modelReply' = <<>>
  /\ rawText' = <<>>
  /\ generatedImage' = FALSE
  /\ imageCalls' = <<>>

ReplyInit ==
  /\ replyPc = "idle"
  /\ modelReply = <<>>
  /\ rawText = <<>>
  /\ generatedImage = FALSE
  /\ imageCalls = <<>>

----------------------------------------------------------------------------
(* GeminiService.sendMessage of src/services/geminiService.ts after the     *)
(* chat call resolved: the loop over result.functionCalls.                   *)

MaxToolCalls == 2

ToolNames == {"takePhoto", "editImage"}

ToolCallLists == UNION { [1..n -> ToolNames] : n \in 0..MaxToolCalls }

\* the for loop comes to call i, or past the last call to the return of
\* sendMessage, and runs to its next await
Advance(i, fnCalls, img, responses, reqs, hasText) ==
  /\ callIdx' = i
  /\ replyText' = hasText
  /\ IF i > Len(fnCalls)
       THEN /\ toolPc' = "returned"
            /\ functionResponses' = responses
            /\ editRequests' = reqs
       ELSE IF fnCalls[i] = "takePhoto"
       THEN /\ toolPc' = "tool"
            /\ functionResponses' = responses
            /\ editRequests' = reqs
       ELSE IF img
       THEN /\ toolPc' = "tool"
            /\ functionResponses' = responses
            /\ editRequests' = Append(reqs, i)
       ELSE /\ toolPc' = "respond"
            /\ functionResponses' = Append(responses, [call |-> i, result |-> "noImage"])
            /\ editRequests' = reqs

\* sendMessage from the resolution of the chat call to its next await
ChatReplied(hasText, fnCalls, img) ==
  /\ toolPc = "idle"
  /\ toolCalls' = fnCalls
  /\ imgToEdit' = img
  /\ toolImage' = <<>>
  /\ editFailed' = {}
  /\ Advance(1, fnCalls, img, <<>>, <<>>, hasText)

\* this.generateImage or this.editImage of the current call resolved (ok) or
\* rejected: generateImage is awaited outside a try, editImage inside one
ToolSettled(ok) ==
  /\ toolPc = "tool"
  /\ IF toolCalls[callIdx] = "takePhoto"
       THEN IF ok
              THEN /\ toolImage' = <<callIdx>>
                   /\ functionResponses' = Append(functionResponses, [call |-> callIdx, result |-> "ok"])
                   /\ toolPc' = "respond"
                   /\ UNCHANGED editFailed
              ELSE /\ toolPc' = "threw"
                   /\ UNCHANGED <<toolImage, functionResponses, editFailed>>
       ELSE IF ok
              THEN /\ toolImage' = <<callIdx>>
                   /\ functionResponses' = Append(functionResponses, [call |-> callIdx, result |-> "ok"])
                   /\ toolPc' = "respondInTry"
                   /\ UNCHANGED editFailed
              ELSE /\ editFailed' = editFailed \cup {callIdx}
                   /\ functionResponses' = Append(functionResponses, [call |-> callIdx, result |-> "error"])
                   /\ toolPc' = "respond"
                   /\ UNCHANGED toolImage
  /\ UNCHANGED <<toolCalls, callIdx, imgToEdit, replyText, editRequests>>

\* this.chat.sendMessage of a functionResponse resolved (ok) or rejected
ResponseSettled(ok) ==
  /\ toolPc \in {"respond", "respondInTry"}
  /\ IF ok
       THEN /\ Advance(callIdx + 1, toolCalls, imgToEdit, functionResponses, editRequests, TRUE)
       ELSE IF toolPc = "respondInTry"
       THEN /\ functionResponses' = Append(functionResponses, [call |-> callIdx, result |-> "error"])
            /\ toolPc' = "respond"
            /\ UNCHANGED <<callIdx, replyText, editRequests>>
       ELSE /\ toolPc' = "threw"
            /\ UNCHANGED <<callIdx, replyText, functionResponses, editRequests>>
  /\ UNCHANGED <<toolCalls, imgToEdit, toolImage, editFailed>>

ToolInit ==
  /\ toolPc = "idle"
  /\ toolCalls = <<>>
  /\ callIdx = 1
  /\ imgToEdit = FALSE
  /\ replyText = FALSE
  /\ toolImage = <<>>
  /\ functionResponses = <<>>
  /\ editRequests = <<>>
  /\ editFailed = {}

\* the next call of sendMessage comes to this point
NextMessage ==
  /\ toolPc \in {"returned", "threw"}
  /\ toolPc' = "idle"
  /\ toolCalls' = <<>>
  /\ callIdx' = 1
  /\ imgToEdit' = FALSE
  /\ replyText' = FALSE
  /\ toolImage' = <<>>
  /\ functionResponses' = <<>>
  /\ editRequests' = <<>>
  /\ editFailed' = {}

----------------------------------------------------------------------------
(* AuraDB (src/unnamed/part_004).  Every call makes one transaction on one   *)
(* store; IndexedDB runs the transactions on a store one after the other in  *)
(* the order they were made, each one whole or not at all.  The ids taken    *)
(* from Date.now() are numbers, the id 'init' is InitId.                     *)

MaxDbCalls == 3

MaxSaved == 2

StoreNames == {"active_chat", "chat_history"}

RecordIds == {InitId, 1, 2}

\* the lists ChatInterface saves: the greeting 'init' can only be the first message
SavedLists ==
  {msgs \in UNION { [1..n -> [id : RecordIds]] : n \in 0..MaxSaved } :
     \A k \in 2..Len(msgs) : msgs[k].id # InitId}

\* index.getAll(IDBKeyRange.only(userId))
ByUser(records, userId) == {r \in records : r.userId = userId}

\* store.put(value) on a store of keyPath 'id': the record of the key value.id is replaced
PutById(records, value) == {r \in records : r.id # value.id} \cup {value}

\* store.delete(key)
DeleteById(records, key) == {r \in records : r.id # key}

\* keys.forEach(key => store.delete(key))
DeleteKeys(records, keys) == {r \in records : r.id \notin keys}

RECURSIVE PutAll(_, _, _)
\* messages.forEach(msg => store.put({ ...msg, userId }))
PutAll(records, msgs, userId) ==
  IF msgs = <<>> THEN records
  ELSE PutAll(PutById(records, [id |-> Head(msgs).id, userId |-> userId]), Tail(msgs), userId)

\* the transaction of saveActiveChat(userId, msgs)
SaveActiveChatTx(records, userId, msgs) ==
  LET keys == {r.id : r \in ByUser(records, userId)}
  IN PutAll(DeleteKeys(records, keys), msgs, userId)

\* Date.now() never gives a number again that it gave another user
FreshFor(userId, ids) ==
  \A id \in ids \ {InitId} :
    /\ \A s \in StoreNames : \A r \in objectStores[s] : r.id = id => r.userId = userId
    /\ \A i \in 1..Len(transactions) :
         transactions[i].userId # userId =>
           id \notin {transactions[i].messages[k].id : k \in 1..Len(transactions[i].messages)}

Enqueue(tx) ==
  /\ dbCalls < MaxDbCalls
  /\ dbCalls' = dbCalls + 1
  /\ transactions' = Append(transactions, tx)
  /\ UNCHANGED <<objectStores, lastRun>>

\* db.saveActiveChat(userId, msgs) is called: getStore makes the transaction
SaveActiveChat(userId, msgs) ==
  /\ FreshFor(userId, {msgs[k].id : k \in 1..Len(msgs)})
  /\ Enqueue([op |-> "saveActiveChat", store |-> "active_chat", userId |-> userId, messages |-> msgs])
  /\ lastIssued' = [lastIssued EXCEPT ![userId] = Some(msgs)]

\* db.put(storeName, value) with value.userId the user's
Put(storeName, userId, id) ==
  /\ FreshFor(userId, {id})
  /\ Enqueue([op |-> "put", store |-> storeName, userId |-> userId, messages |-> <<[id |-> id]>>])
  /\ UNCHANGED lastIssued

\* db.delete(storeName, key) with the key of a record the user was shown
Delete(storeName, userId, key) ==
  /\ key \in {r.id : r \in ByUser(objectStores[storeName], userId)}
  /\ Enqueue([op |-> "delete", store |-> storeName, userId |-> userId, messages |-> <<[id |-> key]>>])
  /\ UNCHANGED lastIssued

\* what a transaction makes of the records of its store
Committed(records, tx) ==
  IF tx.op = "saveActiveChat" THEN SaveActiveChatTx(records, tx.userId, tx.messages)
  ELSE IF tx.op = "put" THEN PutById(records, [id |-> tx.messages[1].id, userId |-> tx.userId])
  ELSE DeleteById(records, tx.messages[1].id)

\* the oldest transaction on a store runs and the promise of its call resolves
RunTransaction(i) ==
  /\ \A j \in 1..(i - 1) : transactions[j].store # transactions[i].store
  /\ LET tx == transactions[i]
     IN /\ objectStores' = [objectStores EXCEPT ![tx.store] = Committed(@, tx)]
        /\ lastRun' = Some([tx |-> tx, before |-> objectStores,
                            pending |-> {j \in 1..Len(transactions) : j # i
                                           /\ transactions[j].store = tx.store} # {}])
  /\ transactions' = Without(transactions, i)
  /\ UNCHANGED <<dbCalls, lastIssued>>

DBInit ==
  /\ objectStores = [s \in StoreNames |-> {}]
  /\ transactions = <<>>
  /\ dbCalls = 0
  /\ lastRun = None
  /\ lastIssued = [u \in Users |-> None]

----------------------------------------------------------------------------
(* createBlob (src/services/geminiService.ts, src/unnamed/part_002).  A      *)
(* sample s is the integer s * SubSteps * FullScale, so that s * 32768 is    *)
(* the sample over SubSteps.                                                 *)

MaxFrame == 2

SubSteps == 4

FullScale == 32768

ByteRange == 256

\* the samples from -1 to 1 next to the ends, to zero and to one step of the PCM value
Samples ==
  LET one == SubSteps * FullScale
  IN {-one, 1 - one, -SubSteps - 1, -SubSteps, -1, 0, 1, SubSteps, SubSteps + 1, one - 1, one}

Frames == UNION { [1..n -> Samples] : n \in 0..MaxFrame }

\* the integer part of n / d, towards zero
Trunc(n, d) == IF n >= 0 THEN n \div d ELSE -((-n) \div d)

\* what an Int16Array element keeps of the integer x: x modulo 2^16, as a signed number
ToInt16(x) ==
  LET m == x % (2 * FullScale)
  IN IF m >= FullScale THEN m - 2 * FullScale ELSE m

\* the two bytes of an Int16Array element in int16.buffer, low byte first
BytesOf(v) ==
  LET u == v % (2 * FullScale)
  IN <<u % ByteRange, u \div ByteRange>>

\* the signed 16-bit value the receiver reads from two bytes
ValueOf(lo, hi) == ToInt16(hi * ByteRange + lo)

RECURSIVE Flatten(_)
Flatten(pairs) == IF pairs = <<>> THEN <<>> ELSE Head(pairs) \o Flatten(Tail(pairs))

\* createBlob(data) up to encode
CreateBlob(data) ==
  /\ pcmData = <<>>
  /\ data # <<>>
  /\ pcmData' = data
  /\ pcmInt16' = [i \in 1..Len(data) |-> ToInt16(Trunc(data[i], SubSteps))]
  /\ pcmBytes' = Flatten([i \in 1..Len(data) |-> BytesOf(pcmInt16'[i])])

\* the next frame of the microphone comes to createBlob
NextFrame ==
  /\ pcmData # <<>>
  /\ pcmData' = <<>>
  /\ pcmInt16' = <<>>
  /\ pcmBytes' = <<>>

PcmInit ==
  /\ pcmData = <<>>
  /\ pcmInt16 = <<>>
  /\ pcmBytes = <<>>

SvcInit ==
  /\ flow = "idle"
  /\ ctx = "none"
  /\ wpc = "none"
  /\ retries = DefaultRetries
  /\ calls = 0
  /\ lastErr = NoError
  /\ thrown = NoError
  /\ replyTag = FALSE
  /\ chat = FALSE
  /\ ui = UiInit
  /\ permRaised = FALSE

(* The conversation context of a reply (src/unnamed/part_000, part_002).    *)
(* The effect on [messages, settings] calls startChat with all messages,    *)
(* which replaces this.chat once the read of getSystemInstruction resolved; *)
(* sendMessage reads the memories and then sends the text as the new turn   *)
(* to whatever chat this.chat holds when the operation of withRetry runs.   *)
(* A message is a number: 0 the greeting, k the k-th message of the user,   *)
(* -k the reply to it.  The component is mounted and its chat is loaded, so *)
(* startChat has been called once and currentSettings is set.               *)

MaxTurns == 2

MaxStarts == 4

\* slice(-10)
HistoryWindow == 10

LastN(h, n) == IF Len(h) <= n THEN h ELSE SubSeq(h, Len(h) - n + 1, Len(h))

\* every message has a text, so the filter keeps all of them
validHistory(h) == LastN(h, HistoryWindow)

ReadRequest(op, h) == [op |-> op, history |-> h]

\* the operation of withRetry in sendMessage: this.chat.sendMessage
ChatSendMessage ==
  /\ lastTurn' = <<[history |-> thisChat[1], message |-> turnMsg]>>
  /\ sentTo' = chatGen
  /\ sendPc' = "inflight"

\* the effect on [messages, settings]: startChat up to await getSystemInstruction
StartChatEffect ==
  /\ effectPending
  /\ startCalls < MaxStarts
  /\ effectPending' = FALSE
  /\ currentHistory' = turnMessages
  /\ reads' = Append(reads, ReadRequest("startChat", turnMessages))
  /\ startCalls' = startCalls + 1
  /\ UNCHANGED <<turnMessages, thisChat, chatGen, sendPc, turnMsg, sentTo, turnRetries,
                 turnLoading, lastTurn>>

\* handleSend and sendMessage up to its first await
HandleSendTurn ==
  /\ ~turnLoading
  /\ turnMsg < MaxTurns
  /\ turnMsg' = turnMsg + 1
  /\ turnMessages' = Append(turnMessages, turnMsg')
  /\ effectPending' = TRUE
  /\ turnLoading' = TRUE
  /\ turnRetries' = DefaultRetries
  /\ IF thisChat = None
       THEN /\ startCalls < MaxStarts
            /\ startCalls' = startCalls + 1
            /\ reads' = Append(reads, ReadRequest("restart", currentHistory))
            /\ sendPc' = "restart"
       ELSE /\ reads' = Append(reads, ReadRequest("memories", <<>>))
            /\ sendPc' = "memories"
            /\ UNCHANGED startCalls
  /\ UNCHANGED <<currentHistory, thisChat, chatGen, sentTo, lastTurn>>

\* the oldest read of the store 'memory' resolves: startChat creates the
\* chat, sendMessage calls withRetry
ReadDone ==
  /\ reads # <<>>
  /\ LET r == Head(reads)
     IN CASE r.op = "startChat" ->
               /\ thisChat' = Some(validHistory(r.history))
               /\ chatGen' = chatGen + 1
               /\ reads' = Tail(reads)
               /\ UNCHANGED <<sendPc, sentTo, lastTurn>>
          [] r.op = "restart" ->
               /\ thisChat' = Some(validHistory(r.history))
               /\ chatGen' = chatGen + 1
               /\ reads' = Append(Tail(reads), ReadRequest("memories", <<>>))
               /\ sendPc' = "memories"
               /\ UNCHANGED <<sentTo, lastTurn>>
          [] r.op = "memories" ->
               /\ reads' = Tail(reads)
               /\ ChatSendMessage
               /\ UNCHANGED <<thisChat, chatGen>>
  /\ UNCHANGED <<turnMessages, effectPending, currentHistory, startCalls, turnMsg, turnRetries,
                 turnLoading>>

\* the remote call resolved: the chat it was made on keeps the turn and the
\* reply, handleSend appends the reply
TurnResolved ==
  /\ sendPc = "inflight"
  /\ thisChat' = IF sentTo = chatGen /\ thisChat # None
                   THEN Some(thisChat[1] \o <<turnMsg, 0 - turnMsg>>)
                   ELSE thisChat
  /\ turnMessages' = Append(turnMessages, 0 - turnMsg)
  /\ effectPending' = TRUE
  /\ turnLoading' = FALSE
  /\ sendPc' = "idle"
  /\ UNCHANGED <<currentHistory, chatGen, reads, startCalls, turnMsg, sentTo, turnRetries, lastTurn>>

\* the remote call rejected: the catch block of withRetry, and of handleSend
TurnRejected(isAuth, isRate) ==
  /\ sendPc = "inflight"
  /\ IF isAuth
       THEN /\ thisChat' = None
            /\ sendPc' = "idle"
            /\ turnLoading' = FALSE
            /\ UNCHANGED turnRetries
       ELSE IF turnRetries > 0 /\ isRate
         THEN /\ sendPc' = "backoff"
              /\ turnRetries' = turnRetries - 1
              /\ UNCHANGED <<thisChat, turnLoading>>
         ELSE /\ sendPc' = "idle"
              /\ turnLoading' = FALSE
              /\ UNCHANGED <<thisChat, turnRetries>>
  /\ UNCHANGED <<turnMessages, effectPending, currentHistory, chatGen, reads, startCalls, turnMsg,
                 sentTo, lastTurn>>

\* the delay of withRetry is over: the operation runs again
TurnBackoff ==
  /\ sendPc = "backoff"
  /\ thisChat # None
  /\ ChatSendMessage
  /\ UNCHANGED <<turnMessages, effectPending, currentHistory, thisChat, chatGen, reads, startCalls,
                 turnMsg, turnRetries, turnLoading>>

TurnInit ==
  /\ turnMessages = <<0>>
  /\ effectPending = TRUE
  /\ currentHistory = <<>>
  /\ thisChat = None
  /\ chatGen = 0
  /\ reads = <<ReadRequest("startChat", <<>>)>>
  /\ startCalls = 1
  /\ sendPc = "idle"
  /\ turnMsg = 0
  /\ sentTo = 0
  /\ turnRetries = 0
  /\ turnLoading = FALSE
  /\ lastTurn = <<>>

----------------------------------------------------------------------------
(* One call of generateImage (src/unnamed/part_002 254-280), observed: the  *)
(* calls of the remote image endpoint, the fallback attempts, and how the   *)
(* primary attempt ended.  The observation is taken from the step the       *)
(* service makes.                                                           *)

\* generateImage was called: tryGenerate(primaryModel) enters withRetry
ImageCallBegins == wpc # "backoff" /\ wpc' = "invoke" /\ ctx' = "img_primary"

\* the operation of tryGenerate called the endpoint
EndpointInvoked == ctx \in {"img_primary", "img_fallback"} /\ calls' = calls + 1

\* the catch block of generateImage went on to tryGenerate('gemini-2.5-flash-image')
FallbackBegins == ctx = "img_primary" /\ ctx' = "img_fallback"

\* tryGenerate(primaryModel) settled in this step
PrimarySettles ==
  /\ ctx = "img_primary" /\ wpc \in {"returned", "thrown"}
  /\ wpc' # wpc \/ ctx' # ctx

ObserveImage ==
  /\ endpointCalls' = IF ImageCallBegins THEN 0
                      ELSE IF EndpointInvoked THEN endpointCalls + 1 ELSE endpointCalls
  /\ fallbacks' = IF ImageCallBegins THEN 0
                  ELSE IF FallbackBegins THEN fallbacks + 1 ELSE fallbacks
  /\ primaryEnd' = IF ImageCallBegins THEN "none"
                   ELSE IF ~PrimarySettles THEN primaryEnd
                   ELSE IF wpc = "thrown" /\ includes(thrown, <<"AUTH_ERROR">>) THEN "auth"
                   ELSE IF wpc = "returned" /\ ~FallbackBegins THEN "image"
                   ELSE "error"

ImgInit ==
  /\ endpointCalls = 0
  /\ fallbacks = 0
  /\ primaryEnd = "none"

----------------------------------------------------------------------------
(* GeminiService (src/services/geminiService.ts) under local mode.  The     *)
(* settings of App carry useLocalMode; the service keeps its own copy,      *)
(* isLocalMode, which startChat writes.  lastOp observes the last operation *)
(* called: its name, the useLocalMode of the settings at the call, and      *)
(* whether it called the remote provider.                                   *)

MaxCloseTimers == 2

Called(op, remote) == <<[op |-> op, useLocalMode |-> currentUseLocalMode, remote |-> remote]>>

\* handleLocalMode (b true) and handleConnect (b false) of App
SetLocalMode(b) ==
  /\ currentUseLocalMode # b
  /\ currentUseLocalMode' = b
  /\ UNCHANGED <<isLocalMode, svcChat, closeTimers, lastOp>>

\* startChat(settings, history): this.ai.chats.create makes no request
StartChat ==
  /\ isLocalMode' = currentUseLocalMode
  /\ svcChat' = IF currentUseLocalMode THEN svcChat ELSE TRUE
  /\ lastOp' = Called("startChat", FALSE)
  /\ UNCHANGED <<currentUseLocalMode, closeTimers>>

\* sendMessage: generateLocalResponseAsync, or "Chat not initialized", or
\* this.chat.sendMessage
LocalSendMessage ==
  /\ lastOp' = Called("sendMessage", ~isLocalMode /\ svcChat)
  /\ UNCHANGED <<currentUseLocalMode, isLocalMode, svcChat, closeTimers>>

GenerateDiaryEntry ==
  /\ lastOp' = Called("generateDiaryEntry", ~isLocalMode)
  /\ UNCHANGED <<currentUseLocalMode, isLocalMode, svcChat, closeTimers>>

\* generateImage and editImage throw in local mode
LocalGenerateImage ==
  /\ lastOp' = Called("generateImage", ~isLocalMode)
  /\ UNCHANGED <<currentUseLocalMode, isLocalMode, svcChat, closeTimers>>

EditImage ==
  /\ lastOp' = Called("editImage", ~isLocalMode)
  /\ UNCHANGED <<currentUseLocalMode, isLocalMode, svcChat, closeTimers>>

\* generateTTS calls this.ai.models.generateContent
GenerateTTS ==
  /\ lastOp' = Called("generateTTS", TRUE)
  /\ UNCHANGED <<currentUseLocalMode, isLocalMode, svcChat, closeTimers>>

\* connectLiveSession(settings, ...): setTimeout(onClose, 500) and no-op
\* actions in local mode, this.ai.live.connect otherwise
ConnectLiveSession ==
  /\ IF currentUseLocalMode
       THEN /\ closeTimers < MaxCloseTimers
            /\ closeTimers' = closeTimers + 1
       ELSE UNCHANGED closeTimers
  /\ lastOp' = Called("connectLiveSession", ~currentUseLocalMode)
  /\ UNCHANGED <<currentUseLocalMode, isLocalMode, svcChat>>

\* the timeout of connectLiveSession: onClose()
CloseTimer ==
  /\ closeTimers > 0
  /\ closeTimers' = closeTimers - 1
  /\ UNCHANGED <<currentUseLocalMode, isLocalMode, svcChat, lastOp>>

LocalInit ==
  /\ currentUseLocalMode = FALSE
  /\ isLocalMode = FALSE
  /\ svcChat = FALSE
  /\ closeTimers = 0
  /\ lastOp = <<>>

----------------------------------------------------------------------------
(* The connection of AuraDB (src/unnamed/part_004 13-97).  An open request  *)
(* is a number; openRequests gives for each what became of it: "pending",   *)
(* "open", "failed", "closing" (the connection is closed, its close event   *)
(* is not dispatched yet) or "closed".  dbPromise is the request whose      *)
(* promise this.dbPromise holds, 0 for null.  The constructor has called    *)
(* initDB.  An operation is a call of getStore followed by its transaction. *)

MaxOps == 2

MaxOpens == 4

OpIds == 1..MaxOps

\* initDB(): the promise returned, and the requests after it
initDB(p, reqs) ==
  IF p # 0 THEN <<p, reqs>> ELSE <<Len(reqs) + 1, Append(reqs, "pending")>>

\* getStore up to await this.getDB(), getDB up to await this.initDB()
OperationIssued(o) ==
  /\ operations[o].pc = "idle"
  /\ LET r == initDB(dbPromise, openRequests)
     IN /\ Len(r[2]) <= MaxOpens
        /\ dbPromise' = r[1]
        /\ openRequests' = r[2]
        /\ operations' = [operations EXCEPT ![o] = [pc |-> "getDB", request |-> r[1],
                                                     retried |-> FALSE, reopens |-> 0]]

\* request.onsuccess
OpenSucceeded(r) ==
  /\ openRequests[r] = "pending"
  /\ openRequests' = [openRequests EXCEPT ![r] = "open"]
  /\ UNCHANGED <<dbPromise, operations>>

\* request.onerror
OpenFailed(r) ==
  /\ openRequests[r] = "pending"
  /\ openRequests' = [openRequests EXCEPT ![r] = "failed"]
  /\ dbPromise' = 0
  /\ UNCHANGED operations

\* the connection is closed abnormally; onclose has not run yet
ConnectionLost(r) ==
  /\ openRequests[r] = "open"
  /\ openRequests' = [openRequests EXCEPT ![r] = "closing"]
  /\ UNCHANGED <<dbPromise, operations>>

\* db.onversionchange (db.close()) and db.onclose
CloseEvent(r) ==
  /\ openRequests[r] \in {"open", "closing"}
  /\ openRequests' = [openRequests EXCEPT ![r] = "closed"]
  /\ dbPromise' = 0
  /\ UNCHANGED operations

\* the promise an operation awaits has settled: getDB returns or retries, and
\* getStore creates the transaction or, on InvalidStateError, calls getDB again
GetDBSettled(o) ==
  /\ operations[o].pc \in {"getDB", "getDBCatch"}
  /\ LET op == operations[o]
         outcome == openRequests[op.request]
         again == initDB(0, openRequests)
     IN /\ outcome # "pending"
        /\ CASE outcome = "open" ->
                  /\ operations' = [operations EXCEPT ![o].pc = "done"]
                  /\ UNCHANGED <<dbPromise, openRequests>>
             [] outcome = "failed" /\ op.pc = "getDB" ->
                  /\ Len(again[2]) <= MaxOpens
                  /\ dbPromise' = again[1]
                  /\ openRequests' = again[2]
                  /\ operations' = [operations EXCEPT ![o].pc = "getDBCatch",
                                                      ![o].request = again[1],
                                                      ![o].reopens = @ + 1]
             [] outcome = "failed" /\ op.pc = "getDBCatch" ->
                  /\ operations' = [operations EXCEPT ![o].pc = "rejected"]
                  /\ UNCHANGED <<dbPromise, openRequests>>
             [] outcome \in {"closing", "closed"} /\ ~op.retried ->
                  /\ Len(again[2]) <= MaxOpens
                  /\ dbPromise' = again[1]
                  /\ openRequests' = again[2]
                  /\ operations' = [operations EXCEPT ![o].pc = "getDB",
                                                      ![o].request = again[1],
                                                      ![o].retried = TRUE,
                                                      ![o].reopens = @ + 1]
             [] outcome \in {"closing", "closed"} /\ op.retried ->
                  /\ operations' = [operations EXCEPT ![o].pc = "rejected"]
                  /\ UNCHANGED <<dbPromise, openRequests>>

\* the caller of the operation is done with its result
OperationReturned(o) ==
  /\ operations[o].pc \in {"done", "rejected"}
  /\ operations' = [operations EXCEPT ![o].pc = "idle"]
  /\ UNCHANGED <<dbPromise, openRequests>>

OpenInit ==
  /\ dbPromise = 1
  /\ openRequests = <<"pending">>
  /\ operations = [o \in OpIds |-> [pc |-> "idle", request |-> 0, retried |-> FALSE, reopens |-> 0]]

----------------------------------------------------------------------------
InitRemote == SvcInit /\ AppInit /\ ChatInit /\ VoiceInit /\ AudioInit /\ MicInit /\ ReplyInit /\ ToolInit /\ DBInit /\ PcmInit /\ OpenInit /\ LocalInit /\ ImgInit /\ TurnInit

NextRemote ==
  \/ TypeInput /\ UNCHANGED <<appVars, chatVars, voiceVars, audioVars, micVars, replyVars, toolVars, dbVars, pcmVars, turnVars, imgVars, localVars, openVars>>
  \/ HandleSendRemote /\ UNCHANGED <<appVars, chatVars, voiceVars, audioVars, micVars, replyVars, toolVars, dbVars, pcmVars, turnVars, imgVars, localVars, openVars>>
  \/ HandleGenerate /\ UNCHANGED <<appVars, chatVars, voiceVars, audioVars, micVars, replyVars, toolVars, dbVars, pcmVars, turnVars, imgVars, localVars, openVars>>
  \/ HandleCreateNew /\ UNCHANGED <<appVars, chatVars, voiceVars, audioVars, micVars, replyVars, toolVars, dbVars, pcmVars, turnVars, imgVars, localVars, openVars>>
  \/ Invoke /\ UNCHANGED <<appVars, chatVars, voiceVars, audioVars, micVars, replyVars, toolVars, dbVars, pcmVars, turnVars, imgVars, localVars, openVars>>
  \/ Catch /\ UNCHANGED <<appVars, chatVars, voiceVars, audioVars, micVars, replyVars, toolVars, dbVars, pcmVars, turnVars, imgVars, localVars, openVars>>
  \/ Backoff /\ UNCHANGED <<appVars, chatVars, voiceVars, audioVars, micVars, replyVars, toolVars, dbVars, pcmVars, turnVars, imgVars, localVars, openVars>>
  \/ ChatSettled /\ UNCHANGED <<appVars, chatVars, voiceVars, audioVars, micVars, replyVars, toolVars, dbVars, pcmVars, turnVars, imgVars, localVars, openVars>>
  \/ ImagePrimarySettled /\ UNCHANGED <<appVars, chatVars, voiceVars, audioVars, micVars, replyVars, toolVars, dbVars, pcmVars, turnVars, imgVars, localVars, openVars>>
  \/ ImageFallbackSettled /\ UNCHANGED <<appVars, chatVars, voiceVars, audioVars, micVars, replyVars, toolVars, dbVars, pcmVars, turnVars, imgVars, localVars, openVars>>
  \/ StorySettled /\ UNCHANGED <<appVars, chatVars, voiceVars, audioVars, micVars, replyVars, toolVars, dbVars, pcmVars, turnVars, imgVars, localVars, openVars>>
  \/ TtsSettled /\ UNCHANGED <<appVars, chatVars, voiceVars, audioVars, micVars, replyVars, toolVars, dbVars, pcmVars, turnVars, imgVars, localVars, openVars>>

SpecRemote == InitRemote /\ [][NextRemote]_vars

\* every remote call resolves or rejects, and the code awaiting it goes on
SpecRemoteFair ==
  /\ SpecRemote
  /\ WF_vars(Invoke /\ UNCHANGED <<appVars, chatVars, voiceVars, audioVars, micVars, replyVars, toolVars, dbVars, pcmVars, turnVars, imgVars, localVars, openVars>>)
  /\ WF_vars(Catch /\ UNCHANGED <<appVars, chatVars, voiceVars, audioVars, micVars, replyVars, toolVars, dbVars, pcmVars, turnVars, imgVars, localVars, openVars>>)
  /\ WF_vars(Backoff /\ UNCHANGED <<appVars, chatVars, voiceVars, audioVars, micVars, replyVars, toolVars, dbVars, pcmVars, turnVars, imgVars, localVars, openVars>>)
  /\ WF_vars(ChatSettled /\ UNCHANGED <<appVars, chatVars, voiceVars, audioVars, micVars, replyVars, toolVars, dbVars, pcmVars, turnVars, imgVars, localVars, openVars>>)
  /\ WF_vars(ImagePrimarySettled /\ UNCHANGED <<appVars, chatVars, voiceVars, audioVars, micVars, replyVars, toolVars, dbVars, pcmVars, turnVars, imgVars, localVars, openVars>>)
  /\ WF_vars(ImageFallbackSettled /\ UNCHANGED <<appVars, chatVars, voiceVars, audioVars, micVars, replyVars, toolVars, dbVars, pcmVars, turnVars, imgVars, localVars, openVars>>)

InitApp == SvcInit /\ AppInit /\ ChatInit /\ VoiceInit /\ AudioInit /\ MicInit /\ ReplyInit /\ ToolInit /\ DBInit /\ PcmInit /\ OpenInit /\ LocalInit /\ ImgInit /\ TurnInit

NextApp ==
  \/ (\E phone \in Users : HandleLogin(phone)) /\ UNCHANGED <<svcVars, chatVars, voiceVars, audioVars, micVars, replyVars, toolVars, dbVars, pcmVars, turnVars, imgVars, localVars, openVars>>
  \/ RunTx /\ UNCHANGED <<svcVars, chatVars, voiceVars, audioVars, micVars, replyVars, toolVars, dbVars, pcmVars, turnVars, imgVars, localVars, openVars>>
  \/ LoginLoaded /\ UNCHANGED <<svcVars, chatVars, voiceVars, audioVars, micVars, replyVars, toolVars, dbVars, pcmVars, turnVars, imgVars, localVars, openVars>>
  \/ LoginFailed /\ UNCHANGED <<svcVars, chatVars, voiceVars, audioVars, micVars, replyVars, toolVars, dbVars, pcmVars, turnVars, imgVars, localVars, openVars>>
  \/ (\E b \in BOOLEAN : CheckKeyResolved(b)) /\ UNCHANGED <<svcVars, chatVars, voiceVars, audioVars, micVars, replyVars, toolVars, dbVars, pcmVars, turnVars, imgVars, localVars, openVars>>
  \/ HandleConnect /\ UNCHANGED <<svcVars, chatVars, voiceVars, audioVars, micVars, replyVars, toolVars, dbVars, pcmVars, turnVars, imgVars, localVars, openVars>>
  \/ SelectKeyDone /\ UNCHANGED <<svcVars, chatVars, voiceVars, audioVars, micVars, replyVars, toolVars, dbVars, pcmVars, turnVars, imgVars, localVars, openVars>>
  \/ SelectKeyFailed /\ UNCHANGED <<svcVars, chatVars, voiceVars, audioVars, micVars, replyVars, toolVars, dbVars, pcmVars, turnVars, imgVars, localVars, openVars>>
  \/ HandleLocalMode /\ UNCHANGED <<svcVars, chatVars, voiceVars, audioVars, micVars, replyVars, toolVars, dbVars, pcmVars, turnVars, imgVars, localVars, openVars>>
  \/ IssueRequest /\ UNCHANGED <<svcVars, chatVars, voiceVars, audioVars, micVars, replyVars, toolVars, dbVars, pcmVars, turnVars, imgVars, localVars, openVars>>
  \/ (\E i \in 1..Len(requests) : RequestDone(i)) /\ UNCHANGED <<svcVars, chatVars, voiceVars, audioVars, micVars, replyVars, toolVars, dbVars, pcmVars, turnVars, imgVars, localVars, openVars>>
  \/ (\E i \in 1..Len(requests) : HandleAuthError(i)) /\ UNCHANGED <<svcVars, chatVars, voiceVars, audioVars, micVars, replyVars, toolVars, dbVars, pcmVars, turnVars, imgVars, localVars, openVars>>
  \/ (\E m \in Modes : SetMode(m)) /\ UNCHANGED <<svcVars, chatVars, voiceVars, audioVars, micVars, replyVars, toolVars, dbVars, pcmVars, turnVars, imgVars, localVars, openVars>>
  \/ EndCall /\ UNCHANGED <<svcVars, chatVars, voiceVars, audioVars, micVars, replyVars, toolVars, dbVars, pcmVars, turnVars, imgVars, localVars, openVars>>
  \/ (\E n \in Names : EditSettings(n)) /\ UNCHANGED <<svcVars, chatVars, voiceVars, audioVars, micVars, replyVars, toolVars, dbVars, pcmVars, turnVars, imgVars, localVars, openVars>>
  \/ LogOut /\ UNCHANGED <<svcVars, chatVars, voiceVars, audioVars, micVars, replyVars, toolVars, dbVars, pcmVars, turnVars, imgVars, localVars, openVars>>

SpecApp == InitApp /\ [][NextApp]_vars

InitChat == SvcInit /\ AppInit /\ ChatInit /\ VoiceInit /\ AudioInit /\ MicInit /\ ReplyInit /\ ToolInit /\ DBInit /\ PcmInit /\ OpenInit /\ LocalInit /\ ImgInit /\ TurnInit

NextChat ==
  \/ Tick /\ UNCHANGED <<svcVars, appVars, voiceVars, audioVars, micVars, replyVars, toolVars, dbVars, pcmVars, turnVars, imgVars, localVars, openVars>>
  \/ LoadDB /\ UNCHANGED <<svcVars, appVars, voiceVars, audioVars, micVars, replyVars, toolVars, dbVars, pcmVars, turnVars, imgVars, localVars, openVars>>
  \/ TypeChat /\ UNCHANGED <<svcVars, appVars, voiceVars, audioVars, micVars, replyVars, toolVars, dbVars, pcmVars, turnVars, imgVars, localVars, openVars>>
  \/ HandleSend /\ UNCHANGED <<svcVars, appVars, voiceVars, audioVars, micVars, replyVars, toolVars, dbVars, pcmVars, turnVars, imgVars, localVars, openVars>>
  \/ (\E i \in 1..Len(sends) : CallSendMessage(i)) /\ UNCHANGED <<svcVars, appVars, voiceVars, audioVars, micVars, replyVars, toolVars, dbVars, pcmVars, turnVars, imgVars, localVars, openVars>>
  \/ (\E i \in 1..Len(sends) : ReplyArrives(i)) /\ UNCHANGED <<svcVars, appVars, voiceVars, audioVars, micVars, replyVars, toolVars, dbVars, pcmVars, turnVars, imgVars, localVars, openVars>>
  \/ (\E i \in 1..Len(sends), is403 \in BOOLEAN : SendFails(i, is403)) /\ UNCHANGED <<svcVars, appVars, voiceVars, audioVars, micVars, replyVars, toolVars, dbVars, pcmVars, turnVars, imgVars, localVars, openVars>>
  \/ (\E confirmed \in BOOLEAN : HandleNewChat(confirmed)) /\ UNCHANGED <<svcVars, appVars, voiceVars, audioVars, micVars, replyVars, toolVars, dbVars, pcmVars, turnVars, imgVars, localVars, openVars>>
  \/ GreetingTimer /\ UNCHANGED <<svcVars, appVars, voiceVars, audioVars, micVars, replyVars, toolVars, dbVars, pcmVars, turnVars, imgVars, localVars, openVars>>
  \/ (\E k \in 1..Len(history) : HandleLoadSession(k)) /\ UNCHANGED <<svcVars, appVars, voiceVars, audioVars, micVars, replyVars, toolVars, dbVars, pcmVars, turnVars, imgVars, localVars, openVars>>
  \/ Remount /\ UNCHANGED <<svcVars, appVars, voiceVars, audioVars, micVars, replyVars, toolVars, dbVars, pcmVars, turnVars, imgVars, localVars, openVars>>

SpecChat == InitChat /\ [][NextChat]_vars

InitVoice == SvcInit /\ AppInit /\ ChatInit /\ VoiceInit /\ AudioInit /\ MicInit /\ ReplyInit /\ ToolInit /\ DBInit /\ PcmInit /\ OpenInit /\ LocalInit /\ ImgInit /\ TurnInit

NextVoice ==
  \/ AutoStart /\ UNCHANGED <<svcVars, appVars, chatVars, audioVars, micVars, replyVars, toolVars, dbVars, pcmVars, turnVars, imgVars, localVars, openVars>>
  \/ RetryCall /\ UNCHANGED <<svcVars, appVars, chatVars, audioVars, micVars, replyVars, toolVars, dbVars, pcmVars, turnVars, imgVars, localVars, openVars>>
  \/ StartImmersiveStory /\ UNCHANGED <<svcVars, appVars, chatVars, audioVars, micVars, replyVars, toolVars, dbVars, pcmVars, turnVars, imgVars, localVars, openVars>>
  \/ StoryTimer /\ UNCHANGED <<svcVars, appVars, chatVars, audioVars, micVars, replyVars, toolVars, dbVars, pcmVars, turnVars, imgVars, localVars, openVars>>
  \/ (\E s \in SessionIds : Resumed(s)) /\ UNCHANGED <<svcVars, appVars, chatVars, audioVars, micVars, replyVars, toolVars, dbVars, pcmVars, turnVars, imgVars, localVars, openVars>>
  \/ (\E s \in SessionIds : Connected(s)) /\ UNCHANGED <<svcVars, appVars, chatVars, audioVars, micVars, replyVars, toolVars, dbVars, pcmVars, turnVars, imgVars, localVars, openVars>>
  \/ (\E s \in SessionIds : MicGranted(s)) /\ UNCHANGED <<svcVars, appVars, chatVars, audioVars, micVars, replyVars, toolVars, dbVars, pcmVars, turnVars, imgVars, localVars, openVars>>
  \/ (\E s \in SessionIds : StartFailed(s)) /\ UNCHANGED <<svcVars, appVars, chatVars, audioVars, micVars, replyVars, toolVars, dbVars, pcmVars, turnVars, imgVars, localVars, openVars>>
  \/ (\E s \in SessionIds : OnAudio(s)) /\ UNCHANGED <<svcVars, appVars, chatVars, audioVars, micVars, replyVars, toolVars, dbVars, pcmVars, turnVars, imgVars, localVars, openVars>>
  \/ (\E s \in SessionIds : Decoded(s)) /\ UNCHANGED <<svcVars, appVars, chatVars, audioVars, micVars, replyVars, toolVars, dbVars, pcmVars, turnVars, imgVars, localVars, openVars>>
  \/ (\E s \in SessionIds : OnInterrupted(s)) /\ UNCHANGED <<svcVars, appVars, chatVars, audioVars, micVars, replyVars, toolVars, dbVars, pcmVars, turnVars, imgVars, localVars, openVars>>
  \/ (\E s \in SessionIds : OnTurnComplete(s)) /\ UNCHANGED <<svcVars, appVars, chatVars, audioVars, micVars, replyVars, toolVars, dbVars, pcmVars, turnVars, imgVars, localVars, openVars>>
  \/ (\E source \in playing : SourceEnded(source)) /\ UNCHANGED <<svcVars, appVars, chatVars, audioVars, micVars, replyVars, toolVars, dbVars, pcmVars, turnVars, imgVars, localVars, openVars>>
  \/ (\E s \in SessionIds : AudioProcess(s)) /\ UNCHANGED <<svcVars, appVars, chatVars, audioVars, micVars, replyVars, toolVars, dbVars, pcmVars, turnVars, imgVars, localVars, openVars>>
  \/ (\E s \in SessionIds : StoryTrigger(s)) /\ UNCHANGED <<svcVars, appVars, chatVars, audioVars, micVars, replyVars, toolVars, dbVars, pcmVars, turnVars, imgVars, localVars, openVars>>
  \/ (\E s \in SessionIds : OnClose(s)) /\ UNCHANGED <<svcVars, appVars, chatVars, audioVars, micVars, replyVars, toolVars, dbVars, pcmVars, turnVars, imgVars, localVars, openVars>>

SpecVoice == InitVoice /\ [][NextVoice]_vars

InitAudio == SvcInit /\ AppInit /\ ChatInit /\ VoiceInit /\ AudioInit /\ MicInit /\ ReplyInit /\ ToolInit /\ DBInit /\ PcmInit /\ OpenInit /\ LocalInit /\ ImgInit /\ TurnInit

NextAudio ==
  \/ (\E audio \in AudioData, interrupted \in BOOLEAN, turnComplete \in BOOLEAN :
        OnServerMessage(audio, interrupted, turnComplete)) /\ UNCHANGED <<svcVars, appVars, chatVars, callVars, micVars, replyVars, toolVars, dbVars, pcmVars, turnVars, imgVars, localVars, openVars>>
  \/ (\E source \in awaitingEnded : OnEnded(source)) /\ UNCHANGED <<svcVars, appVars, chatVars, callVars, micVars, replyVars, toolVars, dbVars, pcmVars, turnVars, imgVars, localVars, openVars>>
  \/ ClockTick /\ UNCHANGED <<svcVars, appVars, chatVars, callVars, micVars, replyVars, toolVars, dbVars, pcmVars, turnVars, imgVars, localVars, openVars>>
  \/ CallStarted /\ UNCHANGED <<svcVars, appVars, chatVars, voiceVars, audioVars, replyVars, toolVars, dbVars, pcmVars, turnVars, imgVars, localVars, openVars>>
  \/ HandleSendText /\ UNCHANGED <<svcVars, appVars, chatVars, callVars, replyVars, toolVars, dbVars, pcmVars, turnVars, imgVars, localVars, openVars>>

SpecAudio == InitAudio /\ [][NextAudio]_vars

InitMic == SvcInit /\ AppInit /\ ChatInit /\ VoiceInit /\ AudioInit /\ MicInit /\ ReplyInit /\ ToolInit /\ DBInit /\ PcmInit /\ OpenInit /\ LocalInit /\ ImgInit /\ TurnInit

NextMic ==
  \/ CallStarted /\ UNCHANGED <<svcVars, appVars, chatVars, voiceVars, audioVars, replyVars, toolVars, dbVars, pcmVars, turnVars, imgVars, localVars, openVars>>
  \/ ToggleMute /\ UNCHANGED <<svcVars, appVars, chatVars, voiceVars, audioVars, replyVars, toolVars, dbVars, pcmVars, turnVars, imgVars, localVars, openVars>>
  \/ HandleSendText /\ UNCHANGED <<svcVars, appVars, chatVars, callVars, replyVars, toolVars, dbVars, pcmVars, turnVars, imgVars, localVars, openVars>>
  \/ PauseTimeout /\ UNCHANGED <<svcVars, appVars, chatVars, voiceVars, audioVars, replyVars, toolVars, dbVars, pcmVars, turnVars, imgVars, localVars, openVars>>
  \/ MsTick /\ UNCHANGED <<svcVars, appVars, chatVars, voiceVars, audioVars, replyVars, toolVars, dbVars, pcmVars, turnVars, imgVars, localVars, openVars>>
  \/ (\E rms \in RmsValues : OnAudioProcess(rms)) /\ UNCHANGED <<svcVars, appVars, chatVars, voiceVars, audioVars, replyVars, toolVars, dbVars, pcmVars, turnVars, imgVars, localVars, openVars>>
  \/ (\E audio \in Durations : OnServerMessage(audio, FALSE, FALSE)) /\ UNCHANGED <<svcVars, appVars, chatVars, callVars, micVars, replyVars, toolVars, dbVars, pcmVars, turnVars, imgVars, localVars, openVars>>
  \/ (\E source \in awaitingEnded : OnEnded(source)) /\ UNCHANGED <<svcVars, appVars, chatVars, callVars, micVars, replyVars, toolVars, dbVars, pcmVars, turnVars, imgVars, localVars, openVars>>
  \/ Cleanup /\ UNCHANGED <<svcVars, appVars, chatVars, voiceVars, replyVars, toolVars, dbVars, pcmVars, turnVars, imgVars, localVars, openVars>>

SpecMic == InitMic /\ [][NextMic]_vars

\* the microphone, the text interjection and the teardown of the call; the
\* timeouts of handleSendText are never cleared, so each runs once it is due
NextPause ==
  \/ CallStarted /\ UNCHANGED <<svcVars, appVars, chatVars, voiceVars, audioVars, replyVars, toolVars, dbVars, pcmVars, turnVars, imgVars, localVars, openVars>>
  \/ ToggleMute /\ UNCHANGED <<svcVars, appVars, chatVars, voiceVars, audioVars, replyVars, toolVars, dbVars, pcmVars, turnVars, imgVars, localVars, openVars>>
  \/ HandleSendText /\ UNCHANGED <<svcVars, appVars, chatVars, callVars, replyVars, toolVars, dbVars, pcmVars, turnVars, imgVars, localVars, openVars>>
  \/ PauseTimeout /\ UNCHANGED <<svcVars, appVars, chatVars, voiceVars, audioVars, replyVars, toolVars, dbVars, pcmVars, turnVars, imgVars, localVars, openVars>>
  \/ MsTick /\ UNCHANGED <<svcVars, appVars, chatVars, voiceVars, audioVars, replyVars, toolVars, dbVars, pcmVars, turnVars, imgVars, localVars, openVars>>
  \/ (\E rms \in RmsValues : OnAudioProcess(rms)) /\ UNCHANGED <<svcVars, appVars, chatVars, voiceVars, audioVars, replyVars, toolVars, dbVars, pcmVars, turnVars, imgVars, localVars, openVars>>
  \/ Cleanup /\ UNCHANGED <<svcVars, appVars, chatVars, voiceVars, replyVars, toolVars, dbVars, pcmVars, turnVars, imgVars, localVars, openVars>>

SpecPause ==
  /\ InitMic /\ [][NextPause]_vars
  /\ WF_vars(PauseTimeout /\ UNCHANGED <<svcVars, appVars, chatVars, voiceVars, audioVars, replyVars, toolVars, dbVars, pcmVars, turnVars, imgVars, localVars, openVars>>)
  /\ WF_vars(MsTick /\ UNCHANGED <<svcVars, appVars, chatVars, voiceVars, audioVars, replyVars, toolVars, dbVars, pcmVars, turnVars, imgVars, localVars, openVars>>)

InitReply == SvcInit /\ AppInit /\ ChatInit /\ VoiceInit /\ AudioInit /\ MicInit /\ ReplyInit /\ ToolInit /\ DBInit /\ PcmInit /\ OpenInit /\ LocalInit /\ ImgInit /\ TurnInit

NextReply ==
  \/ (\E text \in Replies : ReplyReceived(text)) /\ UNCHANGED <<svcVars, appVars, chatVars, voiceVars, audioVars, micVars, toolVars, dbVars, pcmVars, turnVars, imgVars, localVars, openVars>>
  \/ (\E ok \in BOOLEAN : SelfieSettled(ok)) /\ UNCHANGED <<svcVars, appVars, chatVars, voiceVars, audioVars, micVars, toolVars, dbVars, pcmVars, turnVars, imgVars, localVars, openVars>>
  \/ NextTurn /\ UNCHANGED <<svcVars, appVars, chatVars, voiceVars, audioVars, micVars, toolVars, dbVars, pcmVars, turnVars, imgVars, localVars, openVars>>

SpecReply == InitReply /\ [][NextReply]_vars

InitTool == SvcInit /\ AppInit /\ ChatInit /\ VoiceInit /\ AudioInit /\ MicInit /\ ReplyInit /\ ToolInit /\ DBInit /\ PcmInit /\ OpenInit /\ LocalInit /\ ImgInit /\ TurnInit

NextTool ==
  \/ (\E hasText \in BOOLEAN, fnCalls \in ToolCallLists, img \in BOOLEAN :
        ChatReplied(hasText, fnCalls, img)) /\ UNCHANGED <<svcVars, appVars, chatVars, voiceVars, audioVars, micVars, replyVars, dbVars, pcmVars, turnVars, imgVars, localVars, openVars>>
  \/ (\E ok \in BOOLEAN : ToolSettled(ok)) /\ UNCHANGED <<svcVars, appVars, chatVars, voiceVars, audioVars, micVars, replyVars, dbVars, pcmVars, turnVars, imgVars, localVars, openVars>>
  \/ (\E ok \in BOOLEAN : ResponseSettled(ok)) /\ UNCHANGED <<svcVars, appVars, chatVars, voiceVars, audioVars, micVars, replyVars, dbVars, pcmVars, turnVars, imgVars, localVars, openVars>>
  \/ NextMessage /\ UNCHANGED <<svcVars, appVars, chatVars, voiceVars, audioVars, micVars, replyVars, dbVars, pcmVars, turnVars, imgVars, localVars, openVars>>

SpecTool == InitTool /\ [][NextTool]_vars

InitDB == SvcInit /\ AppInit /\ ChatInit /\ VoiceInit /\ AudioInit /\ MicInit /\ ReplyInit /\ ToolInit /\ DBInit /\ PcmInit /\ OpenInit /\ LocalInit /\ ImgInit /\ TurnInit

NextDB ==
  \/ (\E u \in Users, msgs \in SavedLists : SaveActiveChat(u, msgs)) /\ UNCHANGED <<svcVars, appVars, chatVars, voiceVars, audioVars, micVars, replyVars, toolVars, pcmVars, turnVars, imgVars, localVars, openVars>>
  \/ (\E s \in StoreNames, u \in Users, id \in RecordIds \ {InitId} : Put(s, u, id)) /\ UNCHANGED <<svcVars, appVars, chatVars, voiceVars, audioVars, micVars, replyVars, toolVars, pcmVars, turnVars, imgVars, localVars, openVars>>
  \/ (\E s \in StoreNames, u \in Users, key \in RecordIds : Delete(s, u, key)) /\ UNCHANGED <<svcVars, appVars, chatVars, voiceVars, audioVars, micVars, replyVars, toolVars, pcmVars, turnVars, imgVars, localVars, openVars>>
  \/ (\E i \in 1..Len(transactions) : RunTransaction(i)) /\ UNCHANGED <<svcVars, appVars, chatVars, voiceVars, audioVars, micVars, replyVars, toolVars, pcmVars, turnVars, imgVars, localVars, openVars>>

SpecDB == InitDB /\ [][NextDB]_vars

InitPcm ==
  SvcInit /\ AppInit /\ ChatInit /\ VoiceInit /\ AudioInit /\ MicInit /\ ReplyInit /\ ToolInit
    /\ DBInit /\ PcmInit /\ OpenInit /\ LocalInit /\ ImgInit /\ TurnInit

NextPcm ==
  \/ (\E data \in Frames : CreateBlob(data)) /\ UNCHANGED <<svcVars, appVars, chatVars, voiceVars, audioVars, micVars, replyVars, toolVars, dbVars, turnVars, imgVars, localVars, openVars>>
  \/ NextFrame /\ UNCHANGED <<svcVars, appVars, chatVars, voiceVars, audioVars, micVars, replyVars, toolVars, dbVars, turnVars, imgVars, localVars, openVars>>

SpecPcm == InitPcm /\ [][NextPcm]_vars

InitHistory == SvcInit /\ AppInit /\ ChatInit /\ VoiceInit /\ AudioInit /\ MicInit /\ ReplyInit /\ ToolInit /\ DBInit /\ PcmInit /\ OpenInit /\ LocalInit /\ ImgInit /\ TurnInit

NextHistory ==
  \/ StartChatEffect /\ UNCHANGED <<svcVars, appVars, chatVars, voiceVars, audioVars, micVars, replyVars, toolVars, dbVars, pcmVars, imgVars, localVars, openVars>>
  \/ HandleSendTurn /\ UNCHANGED <<svcVars, appVars, chatVars, voiceVars, audioVars, micVars, replyVars, toolVars, dbVars, pcmVars, imgVars, localVars, openVars>>
  \/ ReadDone /\ UNCHANGED <<svcVars, appVars, chatVars, voiceVars, audioVars, micVars, replyVars, toolVars, dbVars, pcmVars, imgVars, localVars, openVars>>
  \/ TurnResolved /\ UNCHANGED <<svcVars, appVars, chatVars, voiceVars, audioVars, micVars, replyVars, toolVars, dbVars, pcmVars, imgVars, localVars, openVars>>
  \/ (\E isAuth \in BOOLEAN, isRate \in BOOLEAN : TurnRejected(isAuth, isRate)) /\ UNCHANGED <<svcVars, appVars, chatVars, voiceVars, audioVars, micVars, replyVars, toolVars, dbVars, pcmVars, imgVars, localVars, openVars>>
  \/ TurnBackoff /\ UNCHANGED <<svcVars, appVars, chatVars, voiceVars, audioVars, micVars, replyVars, toolVars, dbVars, pcmVars, imgVars, localVars, openVars>>

SpecHistory == InitHistory /\ [][NextHistory]_vars

InitImage == SvcInit /\ AppInit /\ ChatInit /\ VoiceInit /\ AudioInit /\ MicInit /\ ReplyInit /\ ToolInit /\ DBInit /\ PcmInit /\ OpenInit /\ LocalInit /\ ImgInit /\ TurnInit

NextImage ==
  \/ TypeInput /\ ObserveImage /\ UNCHANGED <<appVars, chatVars, voiceVars, audioVars, micVars, replyVars, toolVars, dbVars, pcmVars, turnVars, localVars, openVars>>
  \/ HandleSendRemote /\ ObserveImage /\ UNCHANGED <<appVars, chatVars, voiceVars, audioVars, micVars, replyVars, toolVars, dbVars, pcmVars, turnVars, localVars, openVars>>
  \/ HandleGenerate /\ ObserveImage /\ UNCHANGED <<appVars, chatVars, voiceVars, audioVars, micVars, replyVars, toolVars, dbVars, pcmVars, turnVars, localVars, openVars>>
  \/ Invoke /\ ObserveImage /\ UNCHANGED <<appVars, chatVars, voiceVars, audioVars, micVars, replyVars, toolVars, dbVars, pcmVars, turnVars, localVars, openVars>>
  \/ Catch /\ ObserveImage /\ UNCHANGED <<appVars, chatVars, voiceVars, audioVars, micVars, replyVars, toolVars, dbVars, pcmVars, turnVars, localVars, openVars>>
  \/ Backoff /\ ObserveImage /\ UNCHANGED <<appVars, chatVars, voiceVars, audioVars, micVars, replyVars, toolVars, dbVars, pcmVars, turnVars, localVars, openVars>>
  \/ ChatSettled /\ ObserveImage /\ UNCHANGED <<appVars, chatVars, voiceVars, audioVars, micVars, replyVars, toolVars, dbVars, pcmVars, turnVars, localVars, openVars>>
  \/ ImagePrimarySettled /\ ObserveImage /\ UNCHANGED <<appVars, chatVars, voiceVars, audioVars, micVars, replyVars, toolVars, dbVars, pcmVars, turnVars, localVars, openVars>>
  \/ ImageFallbackSettled /\ ObserveImage /\ UNCHANGED <<appVars, chatVars, voiceVars, audioVars, micVars, replyVars, toolVars, dbVars, pcmVars, turnVars, localVars, openVars>>

SpecImage == InitImage /\ [][NextImage]_vars

InitLocal == SvcInit /\ AppInit /\ ChatInit /\ VoiceInit /\ AudioInit /\ MicInit /\ ReplyInit /\ ToolInit /\ DBInit /\ PcmInit /\ OpenInit /\ LocalInit /\ ImgInit /\ TurnInit

NextLocal ==
  \/ (\E b \in BOOLEAN : SetLocalMode(b)) /\ UNCHANGED <<svcVars, appVars, chatVars, voiceVars, audioVars, micVars, replyVars, toolVars, dbVars, pcmVars, turnVars, imgVars, openVars>>
  \/ StartChat /\ UNCHANGED <<svcVars, appVars, chatVars, voiceVars, audioVars, micVars, replyVars, toolVars, dbVars, pcmVars, turnVars, imgVars, openVars>>
  \/ LocalSendMessage /\ UNCHANGED <<svcVars, appVars, chatVars, voiceVars, audioVars, micVars, replyVars, toolVars, dbVars, pcmVars, turnVars, imgVars, openVars>>
  \/ GenerateDiaryEntry /\ UNCHANGED <<svcVars, appVars, chatVars, voiceVars, audioVars, micVars, replyVars, toolVars, dbVars, pcmVars, turnVars, imgVars, openVars>>
  \/ LocalGenerateImage /\ UNCHANGED <<svcVars, appVars, chatVars, voiceVars, audioVars, micVars, replyVars, toolVars, dbVars, pcmVars, turnVars, imgVars, openVars>>
  \/ EditImage /\ UNCHANGED <<svcVars, appVars, chatVars, voiceVars, audioVars, micVars, replyVars, toolVars, dbVars, pcmVars, turnVars, imgVars, openVars>>
  \/ GenerateTTS /\ UNCHANGED <<svcVars, appVars, chatVars, voiceVars, audioVars, micVars, replyVars, toolVars, dbVars, pcmVars, turnVars, imgVars, openVars>>
  \/ ConnectLiveSession /\ UNCHANGED <<svcVars, appVars, chatVars, voiceVars, audioVars, micVars, replyVars, toolVars, dbVars, pcmVars, turnVars, imgVars, openVars>>
  \/ CloseTimer /\ UNCHANGED <<svcVars, appVars, chatVars, voiceVars, audioVars, micVars, replyVars, toolVars, dbVars, pcmVars, turnVars, imgVars, openVars>>

SpecLocal == InitLocal /\ [][NextLocal]_vars

InitOpen == SvcInit /\ AppInit /\ ChatInit /\ VoiceInit /\ AudioInit /\ MicInit /\ ReplyInit /\ ToolInit /\ DBInit /\ PcmInit /\ OpenInit /\ LocalInit /\ ImgInit /\ TurnInit

NextOpen ==
  \/ (\E o \in OpIds : OperationIssued(o)) /\ UNCHANGED <<svcVars, appVars, chatVars, voiceVars, audioVars, micVars, replyVars, toolVars, dbVars, pcmVars, turnVars, imgVars, localVars>>
  \/ (\E r \in 1..Len(openRequests) : OpenSucceeded(r)) /\ UNCHANGED <<svcVars, appVars, chatVars, voiceVars, audioVars, micVars, replyVars, toolVars, dbVars, pcmVars, turnVars, imgVars, localVars>>
  \/ (\E r \in 1..Len(openRequests) : OpenFailed(r)) /\ UNCHANGED <<svcVars, appVars, chatVars, voiceVars, audioVars, micVars, replyVars, toolVars, dbVars, pcmVars, turnVars, imgVars, localVars>>
  \/ (\E r \in 1..Len(openRequests) : ConnectionLost(r)) /\ UNCHANGED <<svcVars, appVars, chatVars, voiceVars, audioVars, micVars, replyVars, toolVars, dbVars, pcmVars, turnVars, imgVars, localVars>>
  \/ (\E r \in 1..Len(openRequests) : CloseEvent(r)) /\ UNCHANGED <<svcVars, appVars, chatVars, voiceVars, audioVars, micVars, replyVars, toolVars, dbVars, pcmVars, turnVars, imgVars, localVars>>
  \/ (\E o \in OpIds : GetDBSettled(o)) /\ UNCHANGED <<svcVars, appVars, chatVars, voiceVars, audioVars, micVars, replyVars, toolVars, dbVars, pcmVars, turnVars, imgVars, localVars>>
  \/ (\E o \in OpIds : OperationReturned(o)) /\ UNCHANGED <<svcVars, appVars, chatVars, voiceVars, audioVars, micVars, replyVars, toolVars, dbVars, pcmVars, turnVars, imgVars, localVars>>

SpecOpen == InitOpen /\ [][NextOpen]_vars

----------------------------------------------------------------------------
(* The markers of an error message the properties speak of. *)

AuthMarkers ==
  { <<"403">>, <<"PERMISSION", "_DENIED">>, <<"caller does not have ", "permission">>,
    <<"Requested entity was not found">>, <<"API_KEY_INVALID">>, <<"unauthorized">> }

CarriesAuthMarker(msg) ==
  \/ \E p \in AuthMarkers : includes(msg, p)
  \/ \E i \in 1..Len(msg) : msg[i] \in {"permission", "Permission", "PERMISSION"}

CarriesRateLimitMarker(msg) ==
  \E i \in 1..Len(msg) : msg[i] \in {"429", "RESOURCE_EXHAUSTED"}

WithRetrySettled == wpc \in {"returned", "thrown"}

\* C2 as stated: withRetry invokes the operation at most twice, a second time
\* only after a rate-limit error that is no authorization error, at least once
\* before it settles, and when the second attempt fails too, the error of that
\* attempt is what the caller gets.
C2_SecondErrorThrownAsIs ==
  /\ calls <= 2
  /\ (WithRetrySettled => calls >= 1)
  /\ (wpc \in {"backoff", "invoke"} /\ calls = 1
        => CarriesRateLimitMarker(lastErr) /\ ~CarriesAuthMarker(lastErr))
  /\ (wpc = "thrown" /\ calls = 2 => thrown = lastErr)

\* C2 as amended: as above, but the caller gets the second attempt's error
\* only when its message carries no authorization marker, and the AUTH_ERROR
\* error otherwise.
C2_RetryAtMostOnce ==
  /\ calls <= 2
  /\ (WithRetrySettled => calls >= 1)
  /\ (wpc \in {"backoff", "invoke"} /\ calls = 1
        => CarriesRateLimitMarker(lastErr) /\ ~CarriesAuthMarker(lastErr))
  /\ (wpc = "thrown" /\ calls = 2
        => thrown = IF CarriesAuthMarker(lastErr) THEN AuthErrorMsg ELSE lastErr)

\* the second attempt failed with an authorization marker and withRetry threw
C2_Witness == wpc = "thrown" /\ calls = 2 /\ CarriesAuthMarker(lastErr)

\* C3: an error of the chat call whose message carries an authorization
\* marker is never retried, makes withRetry throw an error starting with
\* AUTH_ERROR, and ends handleSend with one onAuthError call and no alert.
C3_AuthMarkerTakesAuthPath ==
  ctx = "chat" /\ CarriesAuthMarker(lastErr) =>
    /\ wpc \in {"catch", "thrown", "none"}
    /\ (wpc = "thrown" => startsWith(thrown, <<"AUTH_ERROR">>))
    /\ (wpc = "none" => /\ ui.handler = "send"
                        /\ startsWith(thrown, <<"AUTH_ERROR">>)
                        /\ ui.onAuthErrorCalls = 1
                        /\ ui.alertCalls = 0
                        /\ ~ui.replied)

\* handleSend ended on the auth path for an error that carries a rate-limit
\* marker beside the authorization marker, raised by the retried call
C3_Witness ==
  /\ flow = "idle" /\ ui.handler = "send" /\ ctx = "chat" /\ calls = 2
  /\ CarriesAuthMarker(lastErr) /\ CarriesRateLimitMarker(lastErr)
  /\ ui.onAuthErrorCalls = 1

\* C4: when a handler of the chat screen or of the story player has ended and
\* one of its remote operations raised a permission error (403), the handler
\* called onAuthError.
C4_PermissionErrorReachesUI ==
  flow = "idle" /\ ui.handler \in {"send", "story"} /\ permRaised
    => ui.onAuthErrorCalls >= 1

\* the screen of mode m is rendered
ScreenRendered(m) == MainRendered /\ (mode = m \/ (m = "voice" /\ isVoiceActive))

\* C5: after handleAuthError reset the key, and as long as no key selection
\* has completed and local mode is off, hasApiKey is false; and while
\* hasApiKey is false no screen behind the key gate is rendered.
C5_KeyStaysInvalidated ==
  /\ (authInvalidated /\ settings # None /\ ~settings[1].useLocalMode => ~hasApiKey)
  /\ (~hasApiKey => \A m \in Modes : ~ScreenRendered(m))

\* C6: what db.getSettings(phone) resolves to in handleLogin is, field by
\* field, the record of the last saveSettings call for that user.
C6_SettingsRoundTrip ==
  loginPc = "loaded" /\ lastSaved[currentUserId] # None
    => savedSettings = lastSaved[currentUserId]

\* a record that was edited after its creation has been read back
C6_Witness ==
  /\ loginPc = "loaded" /\ savedSettings # None
  /\ savedSettings[1].name = "Mia" /\ savedSettings[1].useLocalMode

PendingPut(u) == \E i \in 1..Len(dbQueue) : dbQueue[i].op = "put" /\ dbQueue[i].key = u

\* C8: the settings store never holds two records of one userId, and once the
\* writes of a user have run, the user's record is the one saved last.
C8_OneSettingsRecordPerUser ==
  \A u \in Users :
    LET recs == {r \in settingsStore : r.userId = u}
    IN /\ Cardinality(recs) <= 1
       /\ (~PendingPut(u) =>
             recs = IF lastSaved[u] = None THEN {} ELSE {lastSaved[u][1]})

\* both users have a record, one of them saved again after an edit, and no
\* write is pending
C8_Witness ==
  /\ dbQueue = <<>>
  /\ Cardinality(settingsStore) = 2
  /\ \E r \in settingsStore : r.name = "Mia" /\ lastSaved[r.userId] = Some(r)

\* C7: the messages ChatInterface shows are in non-decreasing order of their
\* timestamps.
C7_MessagesInTimestampOrder == IsSorted(messages)

\* loadDB has put stored messages into an order other than the one the store
\* returned them in
C7_Witness ==
  /\ loadedFromStore /\ isDBLoaded
  /\ messages = SortByTimestamp(InKeyOrder(activeChat))
  /\ messages # InKeyOrder(activeChat)

C10_NoReplyAcrossConversations == ~strayReply

\* C1: no code or callback of a session changes status, aiState,
\* isAuraSpeaking, connectionRef, sourcesRef, nextStartTimeRef or
\* sessionActionsRef, or sends audio, once a later handleStartCall has
\* replaced the session's identifier.
C1_NoWriteBySupersededSession == ~staleWrite

\* C11: once the active session has handled an 'interrupted' signal,
\* sourcesRef holds no source for a chunk that had arrived by then (the chunk
\* of the same server message included), and as long as no later chunk has
\* arrived nextStartTimeRef is the output time at the signal.
C11_InterruptFlushesQueue ==
  lastInterrupt # <<>> =>
    /\ \A s \in sources : s.chunk > lastInterrupt[1].arrived
    /\ arrived = lastInterrupt[1].arrived => nextStartTime = lastInterrupt[1].time

\* two chunks started with no 'interrupted' signal handled between them
Unseparated(i, j) == \A k \in (i + 1)..j : ~scheduled[k].afterInterrupt

\* C12 as stated: every chunk starts at the greater of the cursor it found and
\* the output time, and of any two chunks the one that arrived second starts
\* no earlier than the first ends.
C12_ChunksNeverOverlap ==
  /\ \A i \in 1..Len(scheduled) : scheduled[i].atMax
  /\ \A i, j \in 1..Len(scheduled) : i < j => scheduled[i].end <= scheduled[j].start

\* C12: no chunk starts in the past; a chunk that follows another with no
\* 'interrupted' signal between them starts at the greater of the end of that
\* chunk and the output time; and of two chunks with no 'interrupted' signal
\* between them the later one starts no earlier than the first ends.
C12_BackToBackBetweenInterrupts ==
  /\ \A i \in 1..Len(scheduled) : scheduled[i].start >= scheduled[i].time
  /\ \A i \in 1..(Len(scheduled) - 1) :
       ~scheduled[i + 1].afterInterrupt
         => scheduled[i + 1].start = Max(scheduled[i].end, scheduled[i + 1].time)
  /\ \A i, j \in 1..Len(scheduled) :
       i < j /\ Unseparated(i, j) => scheduled[i].end <= scheduled[j].start

C12_Witness ==
  /\ Len(scheduled) = 2
  /\ ~scheduled[2].afterInterrupt
  /\ scheduled[2].start = scheduled[1].end
  /\ scheduled[2].start > scheduled[2].time
  /\ scheduled[1].start > 0

\* C13: a frame processed for the active session while the microphone is not
\* muted and sending is not paused leads to exactly one frame of the same
\* length being sent: with remote audio queued, the captured frame if its rms
\* exceeds 0.05 and an all-zero frame otherwise; with none queued, the
\* captured frame.
C13_EveryFrameForwarded ==
  lastFrame # <<>> /\ ~lastFrame[1].muted /\ ~lastFrame[1].paused =>
    /\ Len(lastFrame[1].sent) = 1
    /\ lastFrame[1].sent[1].len = lastFrame[1].len
    /\ lastFrame[1].sent[1].data =
         IF lastFrame[1].talking /\ ~lastFrame[1].loud THEN "zeros" ELSE "captured"

\* C14: a frame is forwarded only when the pause of 1000 ms has elapsed since
\* the most recent text interjection.
C14_NoFrameDuringPause ==
  lastFrame # <<>> /\ lastFrame[1].sent # <<>> => lastFrame[1].sinceText >= PauseTicks

\* C15: when the reply carries the image tag, sendMessage has called
\* generateImage for the prompt of the tag, and the text it returns carries no
\* image tag, however many the reply carried and whether or not the image
\* generation succeeded.
C15_NoTagInReturnedText ==
  replyPc = "returned" =>
    /\ MatchStart(modelReply) # 0 => imageCalls = <<MatchedPrompt(modelReply)>>
    /\ MatchStart(rawText) = 0

ResponsesFor(i) == {k \in 1..Len(functionResponses) : functionResponses[k].call = i}

\* C16: when the model called editImage and the edit request failed or there
\* was no image to edit, sendMessage returns (it does not throw), exactly one
\* functionResponse was sent for that call and it carries an error result, no
\* generated image is returned, the returned text is not empty, and without
\* an image the edit endpoint was not called.
C16_FailedEditReported ==
  toolPc \in {"returned", "threw"} =>
    \A i \in 1..Len(toolCalls) :
      (toolCalls[i] = "editImage" /\ (i \in editFailed \/ ~imgToEdit)) =>
        /\ toolPc = "returned"
        /\ Cardinality(ResponsesFor(i)) = 1
        /\ \A k \in ResponsesFor(i) : functionResponses[k].result \in {"error", "noImage"}
        /\ toolImage = <<>>
        /\ replyText
        /\ ~imgToEdit => editRequests = <<>>

\* C17: a saveActiveChat, put or delete made for one user leaves the records
\* getAllByUserId returns for every other user, in every store, as they were.
C17_RecordsIsolatedPerUser ==
  lastRun # None =>
    \A u \in Users \ {lastRun[1].tx.userId} : \A s \in StoreNames :
      ByUser(objectStores[s], u) = ByUser(lastRun[1].before[s], u)

\* the records saveActiveChat(userId, msgs) is to leave for the user
RecordsOf(msgs, userId) == {[id |-> msgs[k].id, userId |-> userId] : k \in 1..Len(msgs)}

\* C18: after a saveActiveChat call resolved, whether or not other calls were
\* pending, the user's records of 'active_chat' are exactly the messages of
\* that call, one record for each; and when every call has resolved and the
\* last transaction on the store was a saveActiveChat of the user, they are
\* the messages of the call the user issued last.
C18_SaveActiveChatAtomic ==
  (lastRun # None /\ lastRun[1].tx.op = "saveActiveChat") =>
    LET tx == lastRun[1].tx
        stored == ByUser(objectStores["active_chat"], tx.userId)
    IN /\ stored = RecordsOf(tx.messages, tx.userId)
       /\ Cardinality(stored) = Len(tx.messages)
       /\ transactions = <<>> => stored = RecordsOf(lastIssued[tx.userId][1], tx.userId)

\* the list now begins with the list before
Continues(before, after) ==
  Len(before) <= Len(after) /\ SubSeq(after, 1, Len(before)) = before

\* C19: when New Chat or the loading of a session takes a conversation of
\* more than one message out of the active chat, the archive 'chat_history'
\* then holds a session with these messages; and no step other than a delete
\* takes a conversation out of the archive.
C19_ArchivedBeforeReplaced ==
  [][/\ (Len(messages) > 1 /\ isDBLoaded' /\ ~Continues(messages, messages'))
          => \E s \in chatHistory' : s.messages = messages
     /\ \A s \in chatHistory : \E s2 \in chatHistory' : s2.messages = s.messages]_vars

\* C20: for every sample s from -1 to 1, both ends included, the 16-bit value
\* createBlob hands on is the integer part of s * 32768, and the value the
\* receiver reads from the bytes never has the sign opposite to the sample's.
C20_PcmKeepsValueAndSign ==
  \A i \in 1..Len(pcmData) :
    LET sent == ValueOf(pcmBytes[2 * i - 1], pcmBytes[2 * i])
    IN /\ sent = Trunc(pcmData[i], SubSteps)
       /\ pcmData[i] > 0 => sent >= 0
       /\ pcmData[i] < 0 => sent <= 0

\* C21: a frame the microphone delivers while the mute control is on is not
\* forwarded to the live session, whenever after the start of the call the
\* control was switched on.
C21_NoFrameWhileMuted ==
  lastFrame # <<>> /\ lastFrame[1].muted => lastFrame[1].sent = <<>>

\* C22: a session whose identifier was replaced while its connectLiveSession
\* was pending stays pending or is disconnected and ended; no step stores it
\* in sessionActionsRef, and none takes it on to the microphone capture and
\* the status 'connected'.
C22_SupersededConnectionDropped ==
  [][\A s \in SessionIds :
       (session[s].pc = "connect" /\ activeSessionIdRef # s) =>
         /\ session'[s].pc \in {"connect", "ended"}
         /\ sessionActionsRef' # s]_vars

\* a session that was replaced while pending was disconnected when its
\* connection resolved: it has ended with its connection made, and
\* sessionActionsRef holds none or an older session
C22_Witness ==
  \E s \in SessionIds :
    /\ session[s].pc = "ended" /\ session[s].isOpen
    /\ activeSessionIdRef # s
    /\ sessionActionsRef < s

\* C23: a call of handleStartCall that finds connectionRef.current true (the
\* timeout of startImmersiveStory is the caller that can) changes nothing:
\* the active session identifier stays, and no session is started.
C23_StartWhileConnectedIsNoOp ==
  [][(storyTimer /\ ~storyTimer' /\ connectionRef) =>
       /\ activeSessionIdRef' = activeSessionIdRef
       /\ session' = session]_vars

\* C24: whenever pauseAudioSendingRef is set it is false again later, also
\* when cleanup() ran or another call was started during the pause.
C24_PauseEnds == pauseAudioSendingRef ~> ~pauseAudioSendingRef

\* a pause is on, its timeout is pending, and cleanup() has closed the call
C24_Witness ==
  /\ pauseAudioSendingRef
  /\ pauseTimers # <<>>
  /\ liveCall # <<>> /\ liveCall[1].closed

\* C25: the chat that receives a user message as the new turn does not hold
\* that message in its history already.
C25_MessageOnceInContext ==
  lastTurn # <<>> =>
    \A i \in 1..Len(lastTurn[1].history) : lastTurn[1].history[i] # lastTurn[1].message

\* C26: when the transaction that saves the defaults of a failed login runs,
\* the store 'settings' holds afterwards what it held before.
C26_FallbackNotStored ==
  [][(/\ dbQueue # <<>>
      /\ dbQueue[TxToRun(dbQueue)].by = "fallback"
      /\ Len(dbQueue') < Len(dbQueue)
      /\ StoreGet(settingsStore, dbQueue[TxToRun(dbQueue)].key) # None)
       => settingsStore' = settingsStore]_vars

\* C27: a send that set isLoading is followed by a state in which isLoading
\* is false and a new send is accepted, whichever way the remote call ended;
\* likewise isGenerating of the image generator.
C27_LoadingCleared ==
  /\ ui.isLoading ~> (~ui.isLoading /\ flow = "idle")
  /\ ui.isGenerating ~> (~ui.isGenerating /\ flow = "idle")

\* a send has ended on the authorization-error path and isLoading is false
C27_Witness ==
  /\ ui.handler = "send" /\ ui.onAuthErrorCalls > 0
  /\ flow = "idle" /\ ~ui.isLoading

\* C28: within one call of generateImage the fallback attempt is made once
\* when the primary attempt ended in an error without AUTH_ERROR, never when it
\* ended in an AUTH_ERROR or in an image, and the remote image endpoint is
\* called at most four times, the rate-limit retries included.
C28_OneFallbackAtMostFourCalls ==
  /\ endpointCalls <= 2 * (DefaultRetries + 1)
  /\ primaryEnd = "error" => fallbacks = 1
  /\ primaryEnd \in {"none", "image", "auth"} => fallbacks = 0

\* both attempts were retried after a rate limit: four calls, one fallback
C28_Witness ==
  /\ endpointCalls = 2 * (DefaultRetries + 1)
  /\ primaryEnd = "error" /\ fallbacks = 1

\* C29: an operation of the service called while the settings have
\* useLocalMode set does not call the remote provider.
C29_NoRemoteCallInLocalMode ==
  lastOp # <<>> /\ lastOp[1].useLocalMode => ~lastOp[1].remote

\* C30: the operations that need the database opened share one open request:
\* no second request is made while one is pending.
C30_OneOpenRequestShared ==
  Cardinality({r \in 1..Len(openRequests) : openRequests[r] = "pending"}) <= 1

====
